---- MODULE Spec2Model ----
(***************************************************************************)
(* Authentication provider abstraction of agent-chat-ui:                   *)
(*   - the external (Supabase) adapter, the anonymous adapter and the      *)
(*     FallbackAuthProvider composite (src/auth/factory.ts),               *)
(*   - the React AuthProvider / AnonProvider / AnonWithAuthProvider        *)
(*     contexts that project provider state into component state,          *)
(*   - the credential propagation of StreamProvider / StreamSession and    *)
(*     ThreadProvider (bearer token and owner tag of outbound requests).   *)
(*                                                                         *)
(* JavaScript runs every handler to completion; a handler is split into    *)
(* two actions exactly where it awaits the external identity service.      *)
(* React state lives in the variables auth/authTokenToUse/...; what the    *)
(* components read is the snapshot of the last render (ctx, rend), and     *)
(* passive effects run in a later step than the render that queued them.   *)
(***************************************************************************)
EXTENDS Naturals, Sequences, FiniteSets, TLC

\* ---------------------------------------------------------------- bounds
MaxTokens == 2      \* access tokens the identity service issues in one run
MaxEvents == 1      \* change events queued for delivery at one time
MaxAnonIds == 2     \* identifiers uuidv4() hands out in one run
MaxLoads == 2       \* times the page is loaded in one run

\* ---------------------------------------------------------------- values
Null == <<>>              \* null object (session, user, userData, closure)
NullStr == "null"         \* null string (token, id)
Undef == "undefined"      \* a missing optional string field

TokenNames == <<"tok1", "tok2", "tok3", "tok4">>
AnonIdNames == <<"anon1", "anon2", "anon3", "anon4">>

\* The principals the identity service knows: one with profile metadata,
\* one without (user_metadata absent).
SupabaseUsers ==
  { [id |-> "u1", email |-> "ann@x", aud |-> "authenticated",
     user_metadata |-> [full_name |-> "Ann", avatar_url |-> "ann.png"]],
    [id |-> "u2", email |-> "bob@x", aud |-> "authenticated",
     user_metadata |-> Null] }

Emails == {"ann@x", "bob@x"}
Passwords == {"good", "bad"}

SupabaseUserOf(email) == CHOOSE u \in SupabaseUsers : u.email = email

\* A session as the identity service hands it out.
SupabaseSessionOf(n, email) ==
  [access_token |-> TokenNames[n], token_type |-> "bearer",
   user |-> SupabaseUserOf(email)]

Subscribers == {"auth", "obs"}

\* ------------------------------------------------------------- variables
VARIABLES
  env,                   \* import.meta.env: the VITE_* settings of the build
  call,                  \* the last configuration / header function applied, with its result
  svcSession,            \* the identity service's current session, or Null
  events,                \* change events not yet delivered to the listeners
  tokenCtr,              \* tokens issued so far
  sb,                    \* SupabaseAuthProvider: session, user, userData, accessToken
  anonUserData,          \* AnonymousAuthProvider.userData
  currentProvider,       \* FallbackAuthProvider.currentProvider
  subscriptionCallbacks, \* FallbackAuthProvider.subscriptionCallbacks
  sbListeners,           \* listeners registered with supabase.auth.onAuthStateChange
  op,                    \* the auth operation suspended at its await, if any
  mounted,               \* AuthProvider's mount effect has run
  auth,                  \* AuthProvider's React state (useState cells)
  ctx,                   \* AuthProvider's memoised context value (last render)
  dirty,                 \* a state update is waiting for a render
  effectsPending,        \* the last render's passive effects have not run yet
  authTokenToUse,        \* StreamProvider state
  authTokenForRequests,  \* ThreadProvider state
  rend,                  \* what the last render handed down (props, closures)
  fetchOv,               \* the closure installed as window.fetch, or Null
  spDeps,                \* StreamProvider token effect: deps of its last run
  tpDeps,                \* ThreadProvider token effect: deps of its last run
  timer,                 \* getThreads closure held by a pending sleep(), or Null
  hist,                  \* ThreadProvider's threads / threadsLoading and ThreadHistory's loads
  thr,                   \* Thread: composer, pending message, sign-in modal and its callbacks
  singleton,             \* factory.ts: the module's authProviderInstance, and providers built
  anonId,                \* AnonProvider state id
  lsAnonId,              \* localStorage['lg:chat:anon_id']
  anonCtr,               \* identifiers generated so far
  lsFault,               \* which localStorage accesses throw: none, reads or writes
  loads,                 \* page loads so far
  composer,              \* AnonWithAuthProvider's memoised isAnonymous and its deps
  sinceSignOut,          \* history: sign-out finished and no new sign-in since
  out                    \* what the last step emitted: callbacks, toasts, requests

svcVars == <<env, call, svcSession, events, tokenCtr>>
provVars == <<sb, anonUserData, currentProvider, subscriptionCallbacks, sbListeners>>
authVars == <<mounted, auth>>
renderVars == <<ctx, dirty, effectsPending, rend, composer>>
streamVars == <<authTokenToUse, authTokenForRequests, fetchOv, spDeps, tpDeps, timer,
                hist, thr, singleton>>
anonVars == <<anonId, lsAnonId, anonCtr, lsFault, loads>>

vars == <<svcVars, provVars, op, authVars, renderVars, streamVars, anonVars,
          sinceSignOut, out>>

\* ------------------------------------------------ configuration resolver
Falsy(str) == str \in {NullStr, Undef, ""}

\* The settings a build can carry.
ProviderSettings == {Undef, "", "supabase", "Supabase", "anon", "none", "firebase"}
UrlSettings == {Undef, "", "https://x.supabase.co"}
KeySettings == {Undef, "", "anon-key"}

Envs ==
  [VITE_AUTH_PROVIDER : ProviderSettings, VITE_SUPABASE_URL : UrlSettings,
   VITE_SUPABASE_ANON_KEY : KeySettings]

\* getAuthProvider() (auth-config.ts 10-35).
getAuthProvider(e) ==
  IF Falsy(e.VITE_AUTH_PROVIDER) THEN "anon"
  ELSE IF e.VITE_AUTH_PROVIDER = "supabase" THEN "supabase"
  ELSE "anon"

\* getAuthConfig() (auth-config.ts 119-136); absent fields are undefined.
getAuthConfig(e) ==
  LET provider == getAuthProvider(e)
  IN IF provider = "anon"
     THEN [provider |-> "anon", supabaseUrl |-> Undef, supabaseAnonKey |-> Undef]
     ELSE IF provider = "supabase"
     THEN [provider |-> "supabase", supabaseUrl |-> e.VITE_SUPABASE_URL,
           supabaseAnonKey |-> e.VITE_SUPABASE_ANON_KEY]
     ELSE [provider |-> "anon", supabaseUrl |-> Undef, supabaseAnonKey |-> Undef]

\* lib/supabase: the client exists only for the 'supabase' provider with both
\* credentials present; otherwise the module exports null.
SupabaseClient(e) ==
  LET authProvider == getAuthProvider(e)
      config == getAuthConfig(e)
  IN IF authProvider = "supabase" /\ ~Falsy(config.supabaseUrl)
        /\ ~Falsy(config.supabaseAnonKey)
     THEN [url |-> config.supabaseUrl, key |-> config.supabaseAnonKey]
     ELSE Null

\* createAuthProvider() (factory.ts 217-230): the class it instantiates.
createAuthProvider(e) ==
  LET providerType == getAuthProvider(e)
  IN IF providerType = "supabase" THEN "FallbackAuthProvider"
     ELSE IF providerType = "anon" THEN "AnonymousAuthProvider"
     ELSE "NullAuthProvider"

\* The Supabase client of this build exists.
supabase == SupabaseClient(env) # Null

\* The module before getAuthProviderInstance() was ever called:
\* authProviderInstance is null and no provider has been constructed.
NoInstance == [instance |-> Null, made |-> 0]

\* Variant: a getAuthProviderInstance() that builds a provider on every call.
getAuthProviderInstance_Fresh(e, m) ==
  [instance |-> [class |-> createAuthProvider(e), id |-> m.made + 1],
   made |-> m.made + 1]

\* getAuthProviderInstance() (factory.ts 232-240): the module after the call;
\* its instance is what the call returns.
getAuthProviderInstance(e, m) ==
  IF m.instance = Null
  THEN [instance |-> [class |-> createAuthProvider(e), id |-> m.made + 1],
        made |-> m.made + 1]
  ELSE m

\* getAuthProviderInstance(): the singleton's class.
authProviderInstance == createAuthProvider(env)

NoCall == [fn |-> "none", args |-> <<>>, result |-> Null]


\* -------------------------------------------- conversions (Supabase.ts)
convertSupabaseUserToCustom(supabaseUser) ==
  [id |-> supabaseUser.id, email |-> supabaseUser.email,
   user_metadata |-> supabaseUser.user_metadata]

convertSupabaseSessionToCustom(supabaseSession) ==
  [access_token |-> supabaseSession.access_token,
   user |-> convertSupabaseUserToCustom(supabaseSession.user)]

\* user.user_metadata?.full_name and ?.avatar_url
MetaField(user, f) ==
  IF user.user_metadata = Null THEN Undef ELSE user.user_metadata[f]

extractUserDataFromUser(user) ==
  [id |-> user.id, email |-> user.email,
   name |-> MetaField(user, "full_name"),
   avatar_url |-> MetaField(user, "avatar_url")]

NoSb == [session |-> Null, user |-> Null, userData |-> Null, accessToken |-> NullStr]

\* Variant: a session update that keeps an access token already cached.
SbOfSession_KeepToken(sbv, supabaseSession) ==
  LET s == convertSupabaseSessionToCustom(supabaseSession)
  IN [session |-> s, user |-> s.user,
      userData |-> IF s.user # Null THEN extractUserDataFromUser(s.user)
                   ELSE sbv.userData,
      accessToken |-> IF sbv.accessToken # NullStr THEN sbv.accessToken
                      ELSE s.access_token]

\* Variant: a session update that leaves the cached access token unset.
SbOfSession_NoToken(sbv, supabaseSession) ==
  LET s == convertSupabaseSessionToCustom(supabaseSession)
  IN [session |-> s, user |-> s.user,
      userData |-> IF s.user # Null THEN extractUserDataFromUser(s.user)
                   ELSE sbv.userData,
      accessToken |-> NullStr]

\* The assignments both initialize() and the change listener make for a session.
SbOfSession(sbv, supabaseSession) ==
  LET s == convertSupabaseSessionToCustom(supabaseSession)
  IN [session |-> s, user |-> s.user,
      userData |-> IF s.user # Null THEN extractUserDataFromUser(s.user)
                   ELSE sbv.userData,
      accessToken |-> s.access_token]

\* Variant: an initialize() that resets the fields when it restores nothing.
SbAfterInitialize_Reset(sbv, ok, supabaseSession) ==
  IF ok /\ supabaseSession # Null THEN SbOfSession(sbv, supabaseSession) ELSE NoSb

\* SupabaseAuthProvider.initialize() after getSession() settled (part_003
\* 57-84): a restored session is stored; with none, or with an error, the
\* fields stay as they are.
SbAfterInitialize(sbv, ok, supabaseSession) ==
  IF ok /\ supabaseSession # Null THEN SbOfSession(sbv, supabaseSession) ELSE sbv

\* ------------------------------------ SupabaseAuthProvider state getters
SbGetSession(sbv) == sbv.session
SbGetUser(sbv) == sbv.user
SbGetUserData(sbv) == sbv.userData

\* getAccessToken() first repairs accessToken from the session when a session
\* exists without one; SbAfterGetAccessToken is the adapter after the call.
SbAfterGetAccessToken(sbv) ==
  IF sbv.session # Null /\ sbv.accessToken = NullStr
  THEN [sbv EXCEPT !.accessToken = sbv.session.access_token]
  ELSE sbv

SbGetAccessToken(sbv) == SbAfterGetAccessToken(sbv).accessToken

\* a || b on optional strings: the first that is neither missing nor empty
OrStr(a, b) == IF a \in {Undef, NullStr, ""} THEN b ELSE a

SbGetUserId(sbv) == IF sbv.user = Null THEN NullStr ELSE OrStr(sbv.user.id, NullStr)

SbIsAuthenticated(sbv) == sbv.user # Null

\* ----------------------------------- AnonymousAuthProvider (AnonProvider)
AnonPlaceholder ==
  [id |-> NullStr, email |-> "", name |-> "Anonymous User", avatar_url |-> ""]

AnonGetAccessToken == NullStr
AnonGetUserId == NullStr

\* ------------------------------------ FallbackAuthProvider state getters
FbGetSession(cp, sbv) == IF cp = "supabase" THEN SbGetSession(sbv) ELSE Null

FbGetUser(cp, sbv) == IF cp = "supabase" THEN SbGetUser(sbv) ELSE Null

\* Variant: getUserData() answering with the anonymous placeholder profile.
FbGetUserData_Placeholder(cp, sbv) ==
  IF cp = "supabase" THEN SbGetUserData(sbv) ELSE anonUserData

FbGetUserData(cp, sbv) ==
  IF cp = "supabase"
  THEN LET userData == SbGetUserData(sbv)
           user == SbGetUser(sbv)
       IN IF userData # Null /\ userData.id \notin {NullStr, Undef, ""}
          THEN userData
          ELSE IF user # Null
               THEN [id |-> user.id,
                     email |-> OrStr(user.email, ""),
                     name |-> OrStr(MetaField(user, "full_name"),
                                    OrStr(user.email, "User")),
                     avatar_url |-> OrStr(MetaField(user, "avatar_url"), "")]
               ELSE Null
  ELSE Null

FbGetAccessToken(cp, sbv) ==
  IF cp = "supabase" THEN SbGetAccessToken(sbv) ELSE AnonGetAccessToken

FbGetUserId(cp, sbv) ==
  IF cp = "supabase" THEN SbGetUserId(sbv) ELSE AnonGetUserId

\* Variant: isAuthenticated() asking the adapter whatever the current provider.
FbIsAuthenticated_AdapterOnly(cp, sbv) == SbIsAuthenticated(sbv)

FbIsAuthenticated(cp, sbv) ==
  IF cp = "supabase" THEN SbIsAuthenticated(sbv) ELSE FALSE

\* The adapter after a composite getAccessToken() call.
FbAfterGetAccessToken(cp, sbv) ==
  IF cp = "supabase" THEN SbAfterGetAccessToken(sbv) ELSE sbv

\* -------------------------------------------------- step output record
Out(step, notified, toasts, reqs) ==
  [step |-> step, notified |-> notified, toasts |-> toasts, reqs |-> reqs,
   adapterThrew |-> FALSE, rejected |-> FALSE]

\* The adapter method rejects: `throw error` in its catch block. Until somebody
\* catches it, the promise handed to the caller rejects too.
Thrown(o) == [o EXCEPT !.adapterThrew = TRUE, !.rejected = TRUE]

\* AuthProvider's wrapper catches and logs (auth/providers/Auth 140-143,
\* 153-156, 173-176, 186-189): the promise it returns resolves.
Swallowed(o) == [o EXCEPT !.rejected = FALSE]

\* --------------------------------- FallbackAuthProvider notifications
\* Variant: a listener that never falls back to 'anon'.
FbListener_Sticky(cp, session) ==
  IF session # Null THEN "supabase" ELSE cp

\* The listener the composite registers with the adapter (factory.ts 69-78).
FbListener(cp, session) ==
  IF session # Null THEN "supabase"
  ELSE IF cp = "supabase" THEN "anon" ELSE cp

StateAtNotify_Before(before, after) == before

\* The currentProvider that notifyCallbacks() and the callbacks read: the
\* listener (factory.ts 70-78) and signIn (119) assign it before the call
\* (90, 122).
StateAtNotify(before, after) == after

notifyCallbacks_Reversed(cp, sbv, cbs) ==
  [i \in 1..Len(cbs) |-> [cb |-> cbs[Len(cbs) + 1 - i],
                          session |-> FbGetSession(cp, sbv)]]

\* notifyCallbacks(): every registered callback, in order, with getSession().
notifyCallbacks(cp, sbv, cbs) ==
  [i \in 1..Len(cbs) |-> [cb |-> cbs[i], session |-> FbGetSession(cp, sbv)]]

\* The callback AuthProvider subscribes (auth/providers/Auth 110-122).
AuthCallback(a, cp, sbv, session) ==
  [a EXCEPT !.session = session,
            !.user = FbGetUser(cp, sbv),
            !.userData = FbGetUserData(cp, sbv),
            !.accessToken = FbGetAccessToken(cp, sbv),
            !.userId = FbGetUserId(cp, sbv)]

HasAuthCallback(cbs) == \E i \in 1..Len(cbs) : cbs[i] = "auth"

\* AuthProvider's state after the callbacks of one notifyCallbacks() ran.
AuthAfterNotify(a, cp, sbv, cbs) ==
  IF HasAuthCallback(cbs)
  THEN AuthCallback(a, cp, sbv, FbGetSession(cp, sbv))
  ELSE a

\* Repeat a sequence n times (one notifyCallbacks() per adapter listener).
RECURSIVE Times(_, _)
Times(seq, n) == IF n = 0 THEN <<>> ELSE seq \o Times(seq, n - 1)

NoneOp == [kind |-> "none", stage |-> "none", email |-> "", password |-> "",
           ok |-> FALSE, session |-> Null, wasSupabase |-> FALSE]

AuthState0 ==
  [session |-> Null, user |-> Null, userData |-> Null, accessToken |-> NullStr,
   userId |-> NullStr, isLoading |-> TRUE]

\* ------------------------------------------------------------------ Init
\* The builds the provider-level runs start from: the 'supabase' provider with
\* its credentials, and without them.
FallbackEnvs ==
  { [VITE_AUTH_PROVIDER |-> "supabase", VITE_SUPABASE_URL |-> "https://x.supabase.co",
     VITE_SUPABASE_ANON_KEY |-> "anon-key"],
    [VITE_AUTH_PROVIDER |-> "supabase", VITE_SUPABASE_URL |-> Undef,
     VITE_SUPABASE_ANON_KEY |-> Undef] }

\* ---------------------------------------- ThreadHistory: loading the list
MaxAuthOps == 1     \* auth operations (sign-in, sign-up, sign-out, reset) in one run
MaxChanges == 1     \* other changes of the load effect's dependencies in one run

\* currentUserId as the load effect computes it.
HistoryUsers == {"anonymous", "u1"}

\* A fresh ThreadHistory instance's refs: loadedRef, userIdRef, loadAttemptRef.
NewRefs == [loaded |-> FALSE, userId |-> NullStr, attempt |-> 0]

\* The page before it is opened: AuthProvider starts with isLoading = true
\* (initialize() is running), ThreadProvider with no threads and
\* threadsLoading = false, and nothing below StreamProvider is mounted.
ThreadHistory0 ==
  [params |-> "unset", authLoading |-> TRUE, user |-> "anonymous", ops |-> 0,
   changes |-> 0, inst |-> 0, effectDue |-> FALSE, refs |-> <<>>, timers |-> {},
   flights |-> {}, threadsLoading |-> FALSE,
   threads |-> [owner |-> "none", by |-> <<0, 0>>]]

\* Thread before the page has rendered it: auth is loading, no Thread
\* instance is mounted, localStorage holds no 'pendingMessage', nothing has
\* been handed to stream.submit.
Thread0 ==
  [authLoading |-> TRUE, isAuthenticated |-> FALSE, inst |-> 0, st |-> <<>>,
   ls |-> NullStr, submitted |-> <<>>, signIn |-> Null, eventPending |-> FALSE,
   timeouts |-> <<>>, submits |-> 0, signIns |-> 0, last |-> "init"]

\* Variant: a StreamProvider that renders its children while auth is loading.
StreamSessionRendered_Always(authLoading) == TRUE

\* StreamProvider renders StreamSession and its children (App, Thread,
\* ThreadHistory) only when auth is not loading (Stream.tsx 409-452).
StreamSessionRendered(authLoading) == ~authLoading

\* The tree is rendered after a change of the auth context: ThreadHistory is
\* mounted (with fresh refs), kept (its load effect runs again because a
\* dependency changed), or unmounted.
AfterRender(h) ==
  IF StreamSessionRendered(h.authLoading)
  THEN IF h.inst = 0
       THEN [h EXCEPT !.inst = Len(h.refs) + 1, !.refs = Append(h.refs, NewRefs),
                      !.effectDue = TRUE]
       ELSE [h EXCEPT !.effectDue = TRUE]
  ELSE [h EXCEPT !.inst = 0, !.effectDue = FALSE]

\* ThreadHistory's load effect (history/index.tsx 100-205) up to the
\* setTimeout, for the mounted instance.
LoadEffect(h) ==
  LET i == h.inst
      r == h.refs[i]
      h0 == [h EXCEPT !.effectDue = FALSE]
  IN IF h.authLoading THEN [h0 EXCEPT !.threadsLoading = TRUE]
     ELSE IF h.params = "env" THEN [h EXCEPT !.params = "url"]
     ELSE IF h.params = "none" THEN [h0 EXCEPT !.threadsLoading = FALSE]
     ELSE IF r.loaded /\ r.userId = h.user THEN h0
     ELSE [h0 EXCEPT !.refs[i].attempt = r.attempt + 1,
                     !.threadsLoading = TRUE,
                     !.timers = @ \cup {[inst |-> i, attempt |-> r.attempt + 1,
                                         user |-> h.user]}]

\* The setTimeout callback (history/index.tsx 166-173): a stale attempt is
\* skipped, the current one calls getThreads().
TimerFired(h, t) ==
  [h EXCEPT !.timers = @ \ {t},
            !.flights = IF t.attempt = h.refs[t.inst].attempt THEN @ \cup {t} ELSE @]

\* getThreads() settled (history/index.tsx 174-203): then / catch / finally.
SearchSettled(h, f, ok) ==
  LET h1 == [h EXCEPT !.flights = @ \ {f}]
      h2 == IF ok
            THEN [h1 EXCEPT !.refs[f.inst].loaded = TRUE,
                            !.refs[f.inst].userId = f.user,
                            !.threads = [owner |-> f.user,
                                         by |-> <<f.inst, f.attempt>>]]
            ELSE [h1 EXCEPT !.refs[f.inst].loaded = FALSE]
  IN IF f.attempt = h2.refs[f.inst].attempt
     THEN [h2 EXCEPT !.threadsLoading = FALSE]
     ELSE h2

\* Everything but hist.
histOthers ==
  <<svcVars, provVars, op, authVars, renderVars, authTokenToUse, authTokenForRequests,
    fetchOv, spDeps, tpDeps, timer, thr, singleton, anonVars, sinceSignOut, out>>

\* The page is opened with apiUrl and assistantId in the URL, or with the
\* environment defaults only.
OpenPage ==
  /\ hist.params = "unset"
  /\ \E p \in {"url", "env"} : hist' = [hist EXCEPT !.params = p]
  /\ UNCHANGED histOthers

\* AuthProvider.signIn / signUp / signOut / resetPassword start
\* (auth/providers/Auth 135-192): setIsLoading(true).
AuthOpBegin ==
  /\ hist.params # "unset" /\ ~hist.authLoading /\ hist.ops < MaxAuthOps
  /\ hist' = AfterRender([hist EXCEPT !.authLoading = TRUE, !.ops = @ + 1])
  /\ UNCHANGED histOthers

\* initialize() or the auth operation is over, with the user changed or not:
\* setIsLoading(false) in the finally block.
AuthOpEnd ==
  /\ hist.params # "unset" /\ hist.authLoading
  /\ \E u \in HistoryUsers :
       hist' = AfterRender([hist EXCEPT !.authLoading = FALSE, !.user = u])
  /\ UNCHANGED histOthers

\* A dependency of the load effect changes while no auth operation runs: a
\* change event signs the user in or out, the token is refreshed, or
\* getThreads is re-created. (While one runs ThreadHistory is unmounted, and
\* AuthOpEnd picks the user it ends with.)
AuthChanged ==
  /\ hist.params # "unset" /\ ~hist.authLoading /\ hist.changes < MaxChanges
  /\ \E u \in HistoryUsers :
       hist' = AfterRender([hist EXCEPT !.user = u, !.changes = @ + 1])
  /\ UNCHANGED histOthers

HistoryEffect ==
  /\ hist.inst # 0 /\ hist.effectDue
  /\ hist' = LoadEffect(hist)
  /\ UNCHANGED histOthers

HistoryTimerFire ==
  /\ \E t \in hist.timers : hist' = TimerFired(hist, t)
  /\ UNCHANGED histOthers

SearchSettles ==
  /\ \E f \in hist.flights, ok \in BOOLEAN : hist' = SearchSettled(hist, f, ok)
  /\ UNCHANGED histOthers

HistoryNext ==
  \/ OpenPage
  \/ AuthOpBegin
  \/ AuthOpEnd
  \/ AuthChanged
  \/ HistoryEffect
  \/ HistoryTimerFire
  \/ SearchSettles


\* A build with no authentication setting at all.
UnsetEnv ==
  [VITE_AUTH_PROVIDER |-> Undef, VITE_SUPABASE_URL |-> Undef,
   VITE_SUPABASE_ANON_KEY |-> Undef]

InitWith(envs, faults) ==
  /\ env \in envs
  /\ call = NoCall
  /\ \E restored \in BOOLEAN :
       /\ svcSession = IF supabase /\ restored
                       THEN SupabaseSessionOf(1, "ann@x") ELSE Null
       /\ tokenCtr = IF supabase /\ restored THEN 1 ELSE 0
  /\ events = <<>>
  /\ sb = NoSb
  /\ anonUserData = Null
  /\ currentProvider = "anon"
  /\ subscriptionCallbacks = <<>>
  /\ sbListeners = <<>>
  /\ op = NoneOp
  /\ mounted = FALSE
  /\ auth = AuthState0
  /\ ctx = [session |-> Null, user |-> Null, userData |-> Null,
            accessToken |-> NullStr, userId |-> NullStr, isLoading |-> TRUE,
            isAuthenticated |-> FALSE, isAnonymous |-> FALSE]
  /\ dirty = FALSE
  /\ effectsPending = FALSE
  /\ authTokenToUse = NullStr
  /\ authTokenForRequests = NullStr
  /\ rend = [ssMounted |-> FALSE, authToken |-> NullStr, tokForReq |-> NullStr]
  /\ fetchOv = Null
  /\ spDeps = [isAuthenticated |-> FALSE, isAnonymous |-> FALSE,
               accessToken |-> NullStr, userId |-> NullStr]
  /\ tpDeps = [isAuthenticated |-> FALSE, isAnonymous |-> FALSE,
               accessToken |-> NullStr, userId |-> NullStr]
  /\ timer = Null
  /\ hist = ThreadHistory0
  /\ thr = Thread0
  /\ singleton = NoInstance
  /\ anonId = NullStr
  /\ \E stored \in BOOLEAN :
       /\ lsAnonId = IF stored THEN AnonIdNames[1] ELSE NullStr
       /\ anonCtr = IF stored THEN 1 ELSE 0
  /\ lsFault \in faults
  /\ loads = 0
  /\ composer = [isAnonymous |-> FALSE,
                 deps |-> [anonId |-> NullStr, isAuthenticated |-> FALSE,
                           user |-> Null, userData |-> Null]]
  /\ sinceSignOut = FALSE
  /\ out = Out("init", <<>>, <<>>, <<>>)

Init == InitWith(FallbackEnvs, {"none"})

\* ------------------------------------------------------ anonymous store
\* createAnonSession(): a fresh uuid, persisted and put into state.
NewAnonId == AnonIdNames[anonCtr + 1]

\* The store as the handlers below see it, with the toasts they show.
AnonStore == [id |-> anonId, ls |-> lsAnonId, ctr |-> anonCtr, toasts |-> <<>>]

createAnonSession_Reuse(st, fault) ==
  IF fault = "write"
  THEN [st EXCEPT !.toasts = <<"error:Failed to create anonymous session">>]
  ELSE [st EXCEPT !.id = AnonIdNames[1], !.ls = AnonIdNames[1], !.ctr = st.ctr + 1]

\* createAnonSession (AnonContext 49-59): uuidv4(), setItem, setId; a throwing
\* setItem skips setId and ends in the catch block's toast.
createAnonSession(st, fault) ==
  IF fault = "write"
  THEN [st EXCEPT !.toasts = <<"error:Failed to create anonymous session">>]
  ELSE [st EXCEPT !.id = AnonIdNames[st.ctr + 1], !.ls = AnonIdNames[st.ctr + 1],
                  !.ctr = st.ctr + 1]

initializeAnonSession_Recreate(st, fault) ==
  IF fault = "read" THEN st ELSE createAnonSession(st, fault)

\* initializeAnonSession (AnonContext 26-43): getItem, then setId(storedId) or
\* createAnonSession(); a throwing getItem is logged and nothing else is done.
initializeAnonSession(st, fault) ==
  IF fault = "read" THEN st
  ELSE IF ~Falsy(st.ls) THEN [st EXCEPT !.id = st.ls]
  ELSE createAnonSession(st, fault)

\* clearAnonSession (AnonContext 62-71): removeItem, then setId(null); a
\* throwing removeItem skips setId and ends in the catch block's toast.
clearAnonSession(st, fault) ==
  IF fault = "write"
  THEN [st EXCEPT !.toasts = <<"error:Failed to clear anonymous session">>]
  ELSE [st EXCEPT !.id = NullStr, !.ls = NullStr]

AnonAfterSignOut_Clears(st) == clearAnonSession(st, "none")

\* What AuthProvider.signOut (auth/providers/Auth 162-179) and
\* FallbackAuthProvider.signOut (factory.ts 137-143) do to the anonymous store:
\* neither calls into AnonProvider.
AnonAfterSignOut(st) == st

StoreBecomes(st) ==
  /\ anonId' = st.id
  /\ lsAnonId' = st.ls
  /\ anonCtr' = st.ctr
  /\ UNCHANGED lsFault

\* AuthProvider sets its cells from the provider getters (initAuth 93-97).
AuthFromGetters(a, cp, sbv) ==
  [a EXCEPT !.session = FbGetSession(cp, sbv),
            !.user = FbGetUser(cp, sbv),
            !.userData = FbGetUserData(cp, sbv),
            !.accessToken = FbGetAccessToken(cp, sbv),
            !.userId = FbGetUserId(cp, sbv)]

AuthCleared(a) ==
  [a EXCEPT !.session = Null, !.user = Null, !.userData = Null,
            !.accessToken = NullStr, !.userId = NullStr]

\* ------------------- AnonymousAuthProvider / NullAuthProvider as instance
\* The toast an AnonymousAuthProvider method shows; NullAuthProvider shows none.
Unavailable(what) ==
  IF authProviderInstance = "AnonymousAuthProvider"
  THEN <<<<"error", what, "is not available in anonymous mode">>>>
  ELSE <<>>

\* AuthProvider.signIn / signUp / resetPassword over an instance whose method
\* returns at once: isLoading goes up and down again.
PlainReturn(kind, what) ==
  /\ op.kind = "none"
  /\ auth' = [auth EXCEPT !.isLoading = FALSE]
  /\ dirty' = TRUE
  /\ out' = Out(kind, <<>>, Unavailable(what), <<>>)
  /\ UNCHANGED <<svcVars, provVars, op, mounted, ctx, effectsPending, rend, composer,
                 streamVars, anonVars, sinceSignOut>>

\* AuthProvider.signOut: AnonymousAuthProvider.signOut clears its userData
\* (part_002 65-73), then the cells are cleared.
PlainSignOut ==
  /\ op.kind = "none"
  /\ anonUserData' = Null
  /\ auth' = [AuthCleared(auth) EXCEPT !.isLoading = FALSE]
  /\ dirty' = TRUE
  /\ out' = Out("signOut", <<>>,
                IF authProviderInstance = "AnonymousAuthProvider"
                THEN <<"success:Signed out successfully">> ELSE <<>>,
                <<>>)
  /\ StoreBecomes(AnonAfterSignOut(AnonStore))
  /\ UNCHANGED <<svcVars, sb, currentProvider, subscriptionCallbacks, sbListeners,
                 op, mounted, ctx, effectsPending, rend, composer, streamVars,
                 loads, sinceSignOut>>

\* First mount over such an instance: subscribeToAuthChanges returns undefined,
\* initialize() sets the placeholder profile (AnonymousAuthProvider) or nothing
\* (NullAuthProvider), initAuth() copies the getters and clears isLoading.
PlainMount ==
  /\ ~mounted /\ op.kind = "none"
  /\ mounted' = TRUE
  /\ StoreBecomes(initializeAnonSession(AnonStore, lsFault))
  /\ loads' = loads + 1
  /\ LET ud == IF authProviderInstance = "AnonymousAuthProvider"
               THEN AnonPlaceholder ELSE Null
     IN /\ anonUserData' = ud
        /\ auth' = [AuthCleared(auth) EXCEPT !.userData = ud, !.isLoading = FALSE]
  /\ dirty' = TRUE
  /\ out' = Out("initialize.plain", <<>>,
                initializeAnonSession(AnonStore, lsFault).toasts, <<>>)
  /\ UNCHANGED <<svcVars, sb, currentProvider, subscriptionCallbacks, sbListeners,
                 op, ctx, effectsPending, rend, composer, streamVars, sinceSignOut>>

\* ------------------------------------------------------------- actions
\* First mount: AnonProvider restores or creates the anonymous id; AuthProvider
\* subscribes to the provider and starts initAuth(), which runs
\* FallbackAuthProvider.initialize() up to the adapter's getSession() await
\* (or to the end when no Supabase client exists).
Mount ==
  IF authProviderInstance = "FallbackAuthProvider"
  THEN
         /\ ~mounted /\ op.kind = "none"
         /\ mounted' = TRUE
         /\ StoreBecomes(initializeAnonSession(AnonStore, lsFault))
         /\ loads' = loads + 1
         /\ subscriptionCallbacks' = Append(subscriptionCallbacks, "auth")
         /\ sbListeners' = IF supabase THEN Append(sbListeners, "auth") ELSE sbListeners
         /\ anonUserData' = AnonPlaceholder
         /\ IF supabase
            THEN /\ op' = [NoneOp EXCEPT !.kind = "initialize", !.stage = "await"]
                 /\ auth' = [auth EXCEPT !.isLoading = TRUE]
                 /\ UNCHANGED <<currentProvider, sb>>
                 /\ out' = Out("initialize.call", <<>>,
                               initializeAnonSession(AnonStore, lsFault).toasts, <<>>)
            ELSE LET cp == IF SbGetSession(sb) # Null THEN "supabase" ELSE "anon"
                 IN /\ currentProvider' = cp
                    /\ sb' = FbAfterGetAccessToken(cp, sb)
                    /\ auth' = [AuthFromGetters(auth, cp, sb) EXCEPT !.isLoading = FALSE]
                    /\ op' = NoneOp
                    /\ out' = Out("initialize.noclient", <<>>,
                                  initializeAnonSession(AnonStore, lsFault).toasts,
                                  <<>>)
         /\ dirty' = TRUE
         /\ UNCHANGED <<svcVars, ctx, effectsPending, rend, composer, streamVars,
                        sinceSignOut>>
  ELSE PlainMount

\* supabase.auth.getSession() settles.
AnswerGetSession ==
  /\ op.kind = "initialize" /\ op.stage = "await"
  /\ \E ok \in BOOLEAN :
       op' = [op EXCEPT !.stage = "answered", !.ok = ok,
                        !.session = IF ok THEN svcSession ELSE Null]
  /\ out' = Out("service", <<>>, <<>>, <<>>)
  /\ UNCHANGED <<svcVars, provVars, authVars, renderVars, streamVars, anonVars,
                 sinceSignOut>>

\* initialize() resumes: the adapter stores the restored session (or reports the
\* error and keeps what it has), the composite picks its provider, initAuth()
\* copies the getters into state and clears isLoading.
ResumeInitialize ==
  /\ op.kind = "initialize" /\ op.stage = "answered"
  /\ LET sb1 == SbAfterInitialize(sb, op.ok, op.session)
         cp == IF SbGetSession(sb1) # Null THEN "supabase" ELSE "anon"
         a1 == [AuthFromGetters(auth, cp, sb1) EXCEPT !.isLoading = FALSE]
     IN /\ sb' = FbAfterGetAccessToken(cp, sb1)
        /\ currentProvider' = cp
        /\ auth' = a1
        /\ dirty' = (dirty \/ a1 # auth)
        /\ sinceSignOut' = IF cp = "supabase" THEN FALSE ELSE sinceSignOut
        /\ out' = Out(IF ~op.ok THEN "initialize.error"
                      ELSE IF op.session # Null THEN "initialize.session"
                      ELSE "initialize.nosession",
                      <<>>,
                      IF op.ok THEN <<>> ELSE <<"error:Failed to initialize authentication">>,
                      <<>>)
  /\ op' = NoneOp
  /\ UNCHANGED <<svcVars, anonUserData, subscriptionCallbacks, sbListeners, mounted,
                 ctx, effectsPending, rend, composer, streamVars, anonVars>>

\* The identity service delivers the oldest queued change event to every
\* registered listener: each listener updates the adapter, then runs the
\* composite's listener, which notifies every composite callback.
DeliverEvent ==
  /\ events # <<>>
  /\ events' = Tail(events)
  /\ LET e == Head(events)
         sb1 == IF e # Null THEN SbOfSession(sb, e) ELSE NoSb
         cp == FbListener(currentProvider, SbGetSession(sb1))
         a1 == AuthAfterNotify(auth, StateAtNotify(currentProvider, cp), sb1,
                               subscriptionCallbacks)
     IN IF sbListeners = <<>>
        THEN /\ UNCHANGED <<sb, currentProvider, auth, dirty, sinceSignOut>>
             /\ out' = Out("event.dropped", <<>>, <<>>, <<>>)
        ELSE /\ sb' = IF HasAuthCallback(subscriptionCallbacks)
                      THEN FbAfterGetAccessToken(cp, sb1) ELSE sb1
             /\ currentProvider' = cp
             /\ auth' = a1
             /\ dirty' = (dirty \/ a1 # auth)
             /\ sinceSignOut' = IF cp = "supabase" THEN FALSE ELSE sinceSignOut
             /\ out' = Out(IF e # Null THEN "event.session" ELSE "event.null",
                           Times(notifyCallbacks(StateAtNotify(currentProvider, cp),
                                                 sb1, subscriptionCallbacks),
                                 Len(sbListeners)),
                           <<>>, <<>>)
  /\ UNCHANGED <<env, call, svcSession, tokenCtr, anonUserData, subscriptionCallbacks,
                 sbListeners, op, mounted, ctx, effectsPending, rend, composer,
                 streamVars, anonVars>>

\* ----------------------------------------------- sign-in (email, password)
\* AuthProvider.signIn -> FallbackAuthProvider.signIn -> adapter.signIn, up to
\* the signInWithPassword await. Without a Supabase client the adapter returns
\* at once (after an error toast) and the composite carries on as on success.
SignInCall(email, password) ==
  IF authProviderInstance = "FallbackAuthProvider"
  THEN
         /\ mounted /\ op.kind = "none"
         /\ sinceSignOut' = FALSE
         /\ IF supabase
            THEN /\ op' = [NoneOp EXCEPT !.kind = "signIn", !.stage = "await",
                                         !.email = email, !.password = password]
                 /\ auth' = [auth EXCEPT !.isLoading = TRUE]
                 /\ dirty' = (dirty \/ ~auth.isLoading)
                 /\ out' = Out("signIn.call", <<>>, <<>>, <<>>)
                 /\ UNCHANGED <<sb, currentProvider>>
            ELSE LET cp == "supabase"
                     a1 == [AuthAfterNotify(auth, cp, sb, subscriptionCallbacks)
                              EXCEPT !.isLoading = FALSE]
                 IN /\ currentProvider' = cp
                    /\ sb' = IF HasAuthCallback(subscriptionCallbacks)
                             THEN FbAfterGetAccessToken(cp, sb) ELSE sb
                    /\ auth' = a1
                    /\ dirty' = TRUE
                    /\ op' = NoneOp
                    /\ out' = Out("signIn.noclient",
                                  notifyCallbacks(cp, sb, subscriptionCallbacks),
                                  <<"error:Supabase authentication is not properly configured">>,
                                  <<>>)
         /\ UNCHANGED <<svcVars, anonUserData, subscriptionCallbacks, sbListeners, mounted,
                        ctx, effectsPending, rend, composer, streamVars, anonVars>>
  ELSE mounted /\ PlainReturn("signIn", "Sign in")

\* The identity service settles signInWithPassword: a session for good
\* credentials (and a SIGNED_IN event for the listeners), an error otherwise.
AnswerSignIn ==
  /\ op.kind = "signIn" /\ op.stage = "await"
  /\ IF op.password = "good"
     THEN /\ tokenCtr < MaxTokens /\ Len(events) < MaxEvents
          /\ LET s == SupabaseSessionOf(tokenCtr + 1, op.email)
             IN /\ svcSession' = s
                /\ events' = IF sbListeners # <<>> THEN Append(events, s) ELSE events
          /\ tokenCtr' = tokenCtr + 1
          /\ op' = [op EXCEPT !.stage = "answered", !.ok = TRUE]
     ELSE /\ op' = [op EXCEPT !.stage = "answered", !.ok = FALSE]
          /\ UNCHANGED <<svcSession, events, tokenCtr>>
  /\ out' = Out("service", <<>>, <<>>, <<>>)
  /\ UNCHANGED <<env, call, provVars, authVars, renderVars, streamVars, anonVars,
                 sinceSignOut>>

\* signIn resumes. Success: toast, currentProvider = 'supabase', explicit
\* notifyCallbacks(). Failure: toast and rethrow; AuthProvider swallows it.
ResumeSignIn ==
  /\ op.kind = "signIn" /\ op.stage = "answered"
  /\ IF op.ok
     THEN LET cp == "supabase"
              a1 == [AuthAfterNotify(auth, StateAtNotify(currentProvider, cp), sb,
                                     subscriptionCallbacks)
                       EXCEPT !.isLoading = FALSE]
          IN /\ currentProvider' = cp
             /\ sb' = IF HasAuthCallback(subscriptionCallbacks)
                      THEN FbAfterGetAccessToken(cp, sb) ELSE sb
             /\ auth' = a1
             /\ dirty' = (dirty \/ a1 # auth)
             /\ out' = Out("signIn.ok",
                           notifyCallbacks(StateAtNotify(currentProvider, cp), sb,
                                           subscriptionCallbacks),
                           <<"success:Signed in successfully">>, <<>>)
     ELSE /\ auth' = [auth EXCEPT !.isLoading = FALSE]
          /\ dirty' = (dirty \/ auth.isLoading)
          /\ out' = Swallowed(Thrown(
                       Out("signIn.err", <<>>, <<"error:Failed to sign in">>, <<>>)))
          /\ UNCHANGED <<sb, currentProvider>>
  /\ op' = NoneOp
  /\ UNCHANGED <<svcVars, anonUserData, subscriptionCallbacks, sbListeners, mounted,
                 ctx, effectsPending, rend, composer, streamVars, anonVars,
                 sinceSignOut>>

\* ------------------------------------------------------------- sign-up
\* Variant: signUp switching to 'supabase' the way signIn does.
FbAfterSignUp_Activates(cp) == "supabase"

\* currentProvider after FallbackAuthProvider.signUp resolved (factory.ts 133-135).
FbAfterSignUp(cp) == cp

\* FallbackAuthProvider.signUp only awaits the adapter's signUp.
SignUpCall(email, password) ==
  IF authProviderInstance = "FallbackAuthProvider"
  THEN
         /\ mounted /\ op.kind = "none"
         /\ sinceSignOut' = FALSE
         /\ IF supabase
            THEN /\ op' = [NoneOp EXCEPT !.kind = "signUp", !.stage = "await",
                                         !.email = email, !.password = password]
                 /\ auth' = [auth EXCEPT !.isLoading = TRUE]
                 /\ dirty' = (dirty \/ ~auth.isLoading)
                 /\ out' = Out("signUp.call", <<>>, <<>>, <<>>)
            ELSE /\ op' = NoneOp
                 /\ auth' = [auth EXCEPT !.isLoading = FALSE]
                 /\ dirty' = TRUE
                 /\ out' = Out("signUp.noclient", <<>>,
                               <<"error:Supabase authentication is not properly configured">>,
                               <<>>)
         /\ UNCHANGED <<svcVars, provVars, mounted, ctx, effectsPending, rend, composer,
                        streamVars, anonVars>>
  ELSE mounted /\ PlainReturn("signUp", "Sign up")

\* The identity service settles signUp: rejected, accepted pending e-mail
\* verification (no session), or accepted with a session at once.
AnswerSignUp ==
  /\ op.kind = "signUp" /\ op.stage = "await"
  /\ IF op.password = "good"
     THEN \E confirmed \in BOOLEAN :
            /\ op' = [op EXCEPT !.stage = "answered", !.ok = TRUE]
            /\ IF confirmed
               THEN /\ tokenCtr < MaxTokens /\ Len(events) < MaxEvents
                    /\ LET s == SupabaseSessionOf(tokenCtr + 1, op.email)
                       IN /\ svcSession' = s
                          /\ events' = IF sbListeners # <<>>
                                       THEN Append(events, s) ELSE events
                    /\ tokenCtr' = tokenCtr + 1
               ELSE UNCHANGED <<svcSession, events, tokenCtr>>
     ELSE /\ op' = [op EXCEPT !.stage = "answered", !.ok = FALSE]
          /\ UNCHANGED <<svcSession, events, tokenCtr>>
  /\ out' = Out("service", <<>>, <<>>, <<>>)
  /\ UNCHANGED <<env, call, provVars, authVars, renderVars, streamVars, anonVars,
                 sinceSignOut>>

ResumeSignUp ==
  /\ op.kind = "signUp" /\ op.stage = "answered"
  /\ currentProvider' = IF op.ok THEN FbAfterSignUp(currentProvider) ELSE currentProvider
  /\ auth' = [auth EXCEPT !.isLoading = FALSE]
  /\ dirty' = (dirty \/ auth.isLoading)
  /\ out' = IF op.ok
            THEN Out("signUp.ok", <<>>,
                     <<"success:Verification email sent. Please check your inbox.">>,
                     <<>>)
            ELSE Swallowed(Thrown(
                   Out("signUp.err", <<>>, <<"error:Failed to sign up">>, <<>>)))
  /\ op' = NoneOp
  /\ UNCHANGED <<svcVars, sb, anonUserData, subscriptionCallbacks, sbListeners,
                 mounted, ctx, effectsPending, rend, composer, streamVars, anonVars,
                 sinceSignOut>>

\* ------------------------------------------------------------ sign-out
\* Variant: falling back to 'anon' only when the adapter's sign-out succeeded.
FbAfterSignOut_OnlyOnSuccess(cp, ok) == IF ok THEN "anon" ELSE cp

\* currentProvider after FallbackAuthProvider.signOut, whether or not the
\* adapter's sign-out went through (factory.ts 141-142).
FbAfterSignOut(cp, ok) == "anon"

\* AuthProvider.signOut -> FallbackAuthProvider.signOut: the adapter is only
\* called when the composite is on 'supabase'; afterwards currentProvider =
\* 'anon' and AuthProvider clears its cells.
SignOutCall ==
  IF authProviderInstance = "FallbackAuthProvider"
  THEN
         /\ mounted /\ op.kind = "none"
         /\ IF currentProvider = "supabase" /\ supabase
            THEN /\ op' = [NoneOp EXCEPT !.kind = "signOut", !.stage = "await",
                                         !.wasSupabase = TRUE]
                 /\ auth' = [auth EXCEPT !.isLoading = TRUE]
                 /\ dirty' = (dirty \/ ~auth.isLoading)
                 /\ out' = Out("signOut.call", <<>>, <<>>, <<>>)
                 /\ UNCHANGED <<currentProvider, sinceSignOut, anonVars>>
            ELSE /\ op' = NoneOp
                 /\ currentProvider' = FbAfterSignOut(currentProvider, FALSE)
                 /\ auth' = [AuthCleared(auth) EXCEPT !.isLoading = FALSE]
                 /\ dirty' = TRUE
                 /\ sinceSignOut' = (sinceSignOut \/ currentProvider = "supabase")
                 /\ out' = Out("signOut.return", <<>>,
                               IF currentProvider = "supabase"
                               THEN <<"error:Supabase authentication is not properly configured">>
                               ELSE <<>>,
                               <<>>)
                 /\ StoreBecomes(AnonAfterSignOut(AnonStore))
                 /\ UNCHANGED loads
         /\ UNCHANGED <<svcVars, sb, anonUserData, subscriptionCallbacks, sbListeners,
                        mounted, ctx, effectsPending, rend, composer, streamVars>>
  ELSE mounted /\ PlainSignOut

\* The identity service settles signOut: the session is revoked (SIGNED_OUT
\* event), or the call fails and the session stays.
AnswerSignOut ==
  /\ op.kind = "signOut" /\ op.stage = "await"
  /\ \E ok \in BOOLEAN :
       /\ op' = [op EXCEPT !.stage = "answered", !.ok = ok]
       /\ IF ok
          THEN /\ Len(events) < MaxEvents
               /\ svcSession' = Null
               /\ events' = IF sbListeners # <<>> THEN Append(events, Null) ELSE events
          ELSE UNCHANGED <<svcSession, events>>
  /\ out' = Out("service", <<>>, <<>>, <<>>)
  /\ UNCHANGED <<env, call, tokenCtr, provVars, authVars, renderVars, streamVars,
                 anonVars, sinceSignOut>>

\* signOut resumes: the adapter resets its four fields on success, and on
\* failure only toasts (it does not rethrow); the composite falls back to
\* 'anon'; AuthProvider clears its cells.
ResumeSignOut ==
  /\ op.kind = "signOut" /\ op.stage = "answered"
  /\ sb' = IF op.ok THEN NoSb ELSE sb
  /\ currentProvider' = FbAfterSignOut(currentProvider, op.ok)
  /\ auth' = [AuthCleared(auth) EXCEPT !.isLoading = FALSE]
  /\ dirty' = TRUE
  /\ sinceSignOut' = TRUE
  /\ out' = Out("signOut.return", <<>>,
                IF op.ok THEN <<"success:Signed out successfully">>
                ELSE <<"error:Failed to sign out">>,
                <<>>)
  /\ op' = NoneOp
  /\ StoreBecomes(AnonAfterSignOut(AnonStore))
  /\ UNCHANGED <<svcVars, anonUserData, subscriptionCallbacks, sbListeners, mounted,
                 ctx, effectsPending, rend, composer, streamVars, loads>>

\* ------------------------------------------------------ reset password
ResetPasswordCall(email) ==
  IF authProviderInstance = "FallbackAuthProvider"
  THEN
         /\ mounted /\ op.kind = "none"
         /\ IF supabase
            THEN /\ op' = [NoneOp EXCEPT !.kind = "resetPassword", !.stage = "await",
                                         !.email = email]
                 /\ auth' = [auth EXCEPT !.isLoading = TRUE]
                 /\ dirty' = (dirty \/ ~auth.isLoading)
                 /\ out' = Out("resetPassword.call", <<>>, <<>>, <<>>)
            ELSE /\ op' = NoneOp
                 /\ auth' = [auth EXCEPT !.isLoading = FALSE]
                 /\ dirty' = TRUE
                 /\ out' = Out("resetPassword.noclient", <<>>,
                               <<"error:Supabase authentication is not properly configured">>,
                               <<>>)
         /\ UNCHANGED <<svcVars, provVars, mounted, ctx, effectsPending, rend, composer,
                        streamVars, anonVars, sinceSignOut>>
  ELSE mounted /\ PlainReturn("resetPassword", "Password reset")

AnswerResetPassword ==
  /\ op.kind = "resetPassword" /\ op.stage = "await"
  /\ \E ok \in BOOLEAN : op' = [op EXCEPT !.stage = "answered", !.ok = ok]
  /\ out' = Out("service", <<>>, <<>>, <<>>)
  /\ UNCHANGED <<svcVars, provVars, authVars, renderVars, streamVars, anonVars,
                 sinceSignOut>>

ResumeResetPassword ==
  /\ op.kind = "resetPassword" /\ op.stage = "answered"
  /\ auth' = [auth EXCEPT !.isLoading = FALSE]
  /\ dirty' = (dirty \/ auth.isLoading)
  /\ out' = IF op.ok
            THEN Out("resetPassword.ok", <<>>, <<"success:Password reset email sent">>, <<>>)
            ELSE Swallowed(Thrown(
                   Out("resetPassword.err", <<>>,
                       <<"error:Failed to send reset email">>, <<>>)))
  /\ op' = NoneOp
  /\ UNCHANGED <<svcVars, provVars, mounted, ctx, effectsPending, rend, composer,
                 streamVars, anonVars, sinceSignOut>>

\* -------------------------------------- the identity service on its own
\* The client refreshes the access token of the current session.
TokenRefreshed ==
  /\ supabase /\ svcSession # Null
  /\ tokenCtr < MaxTokens /\ Len(events) < MaxEvents
  /\ LET s == [svcSession EXCEPT !.access_token = TokenNames[tokenCtr + 1]]
     IN /\ svcSession' = s
        /\ events' = IF sbListeners # <<>> THEN Append(events, s) ELSE events
  /\ tokenCtr' = tokenCtr + 1
  /\ out' = Out("service", <<>>, <<>>, <<>>)
  /\ UNCHANGED <<env, call, provVars, op, authVars, renderVars, streamVars, anonVars,
                 sinceSignOut>>

\* The session expires or is revoked elsewhere.
SessionExpired ==
  /\ supabase /\ svcSession # Null
  /\ Len(events) < MaxEvents
  /\ svcSession' = Null
  /\ events' = IF sbListeners # <<>> THEN Append(events, Null) ELSE events
  /\ out' = Out("service", <<>>, <<>>, <<>>)
  /\ UNCHANGED <<env, call, tokenCtr, provVars, op, authVars, renderVars, streamVars,
                 anonVars, sinceSignOut>>

\* --------------------------------------------------- reading the getters
\* Some caller reads the composite's six getters. getAccessToken() is the only
\* one with an assignment in its body (part_003 260-263).
ReadGetters ==
  /\ sb' = FbAfterGetAccessToken(currentProvider, sb)
  /\ out' = Out("getters", <<>>, <<>>, <<>>)
  /\ UNCHANGED <<svcVars, anonUserData, currentProvider, subscriptionCallbacks,
                 sbListeners, op, authVars, renderVars, streamVars, anonVars,
                 sinceSignOut>>

\* ------------------------------- a second subscriber of the composite
Subscribe ==
  /\ ~ \E i \in 1..Len(subscriptionCallbacks) : subscriptionCallbacks[i] = "obs"
  /\ subscriptionCallbacks' = Append(subscriptionCallbacks, "obs")
  /\ sbListeners' = IF supabase THEN Append(sbListeners, "obs") ELSE sbListeners
  /\ out' = Out("subscribe", <<>>, <<>>, <<>>)
  /\ UNCHANGED <<svcVars, sb, anonUserData, currentProvider, op, authVars,
                 renderVars, streamVars, anonVars, sinceSignOut>>

Unsubscribed_OnlyAdapter(cbs, callback) == cbs

\* this.subscriptionCallbacks.filter(cb => cb !== callback) (factory.ts 97).
Unsubscribed(cbs, callback) == SelectSeq(cbs, LAMBDA cb : cb # callback)

Registered(cbs, callback) == \E i \in 1..Len(cbs) : cbs[i] = callback

\* The handle's unsubscribe(): called while subscribed, or once more right
\* after it was called.
Unsubscribe ==
  /\ Registered(subscriptionCallbacks, "obs") \/ out.step = "unsubscribe"
  /\ subscriptionCallbacks' = Unsubscribed(subscriptionCallbacks, "obs")
  /\ sbListeners' = SelectSeq(sbListeners, LAMBDA cb : cb # "obs")
  /\ out' = Out("unsubscribe", <<>>, <<>>, <<>>)
  /\ UNCHANGED <<svcVars, sb, anonUserData, currentProvider, op, authVars,
                 renderVars, streamVars, anonVars, sinceSignOut>>

\* ------------------------------------------- credential propagation layer
ApiKey == "lsv2_key"          \* getApiKey(): the key kept in localStorage
AssistantId == "agent"        \* the configured assistant / graph identifier
Uuids == {"7f3c2b1a-uuid"}    \* the identifiers uuid.validate() accepts

\* Variant: only the empty string counts as blank.
IsBlank_EmptyOnly(str) == str = ""

\* str.trim() === '': the strings made of whitespace only.
IsBlank(str) == str \in {"", " ", "   ", "\t", " \n "}
Bearer(token) == <<"Bearer", token>>         \* `Bearer ${token}`

\* A header map holds exactly the headers that are present.
NoHeaders == <<>>

getLangGraphHeaders(apiKey, authToken) ==
  (IF ~Falsy(apiKey) THEN "X-Api-Key" :> apiKey ELSE NoHeaders)
  @@ (IF ~Falsy(authToken) /\ ~IsBlank(authToken)
      THEN "Authorization" :> Bearer(authToken) ELSE NoHeaders)

\* Variant: both keys, whatever the identifier.
getThreadSearchMetadata_Both(assistantId) ==
  ("assistant_id" :> assistantId) @@ ("graph_id" :> assistantId)

getThreadSearchMetadata(assistantId) ==
  IF assistantId \in Uuids THEN "assistant_id" :> assistantId
  ELSE "graph_id" :> assistantId

Request(url, method, headers, metadata) ==
  [url |-> url, method |-> method, headers |-> headers, metadata |-> metadata]

\* url.includes('/threads') over the urls requested.
UrlIncludesThreads(url) ==
  url \in {"/threads", "/threads/search", "/threads/t/runs/stream"}

\* Variant: an override that only adds the headers.
OverrideFetch_HeadersOnly(ov, req) ==
  LET tokenToUse == IF ov.isAnonymous THEN NullStr ELSE ov.authToken
      headers == getLangGraphHeaders(ApiKey, tokenToUse)
  IN [req EXCEPT !.headers = headers @@ @]

\* The function StreamSession installs as window.fetch (Stream.tsx 102-151),
\* ov being the props it closed over: owner tag on POST .../threads..., then
\* init.headers = { ...init.headers, ...headers }.
OverrideFetch(ov, req) ==
  LET tagged == ~Falsy(ov.userId) /\ UrlIncludesThreads(req.url)
                /\ req.method = "POST"
      tokenToUse == IF ov.isAnonymous THEN NullStr ELSE ov.authToken
      headers == getLangGraphHeaders(ApiKey, tokenToUse)
  IN [req EXCEPT !.metadata = IF tagged THEN ("owner" :> ov.userId) @@ @ ELSE @,
                 !.headers = headers @@ @]

\* window.fetch: the override when one is installed, the browser's otherwise.
WindowFetch(ov, req) == IF ov = Null THEN req ELSE OverrideFetch(ov, req)

\* checkGraphStatus() as StreamSession's second effect calls it (181-207).
CheckGraphStatusRequest(isAnonymous, authToken) ==
  LET tokenToUse == IF isAnonymous THEN NullStr ELSE authToken
  IN Request("/info", "GET", getLangGraphHeaders(ApiKey, tokenToUse), NoHeaders)

\* Variant: a thread search that tags an owner for unauthenticated users too.
GetThreadsRequest_AlwaysOwner(cl) ==
  LET owner == IF cl.user # Null THEN cl.user.id ELSE "anonymous"
      tokenToUse == IF cl.isAuthenticated /\ ~cl.isAnonymous
                    THEN OrStr(cl.tokForReq, cl.accessToken) ELSE NullStr
  IN Request("/threads/search", "POST",
             getLangGraphHeaders(ApiKey, tokenToUse)
               @@ ("Content-Type" :> "application/json"),
             ("owner" :> owner) @@ getThreadSearchMetadata(AssistantId))

\* ThreadProvider.getThreads (Thread.tsx 108-230), cl being the values the
\* useCallback closed over at the render that created it.
GetThreadsRequest(cl) ==
  LET searchMetadata ==
        IF cl.isAuthenticated /\ cl.user # Null
        THEN ("owner" :> cl.user.id) @@ getThreadSearchMetadata(AssistantId)
        ELSE getThreadSearchMetadata(AssistantId)
      tokenToUse == IF cl.isAuthenticated /\ ~cl.isAnonymous
                    THEN OrStr(cl.tokForReq, cl.accessToken) ELSE NullStr
      headers == getLangGraphHeaders(ApiKey, tokenToUse)
  IN Request("/threads/search", "POST",
             headers @@ ("Content-Type" :> "application/json"), searchMetadata)

HasBearer(req) == "Authorization" \in DOMAIN req.headers

\* ----------------------------------------------------- React: rendering
\* AnonContext's value carries isAnonymous: false (AnonContext.tsx 77); this
\* is the flag AuthProvider puts into its own context value.
AnonContextIsAnonymous == FALSE

AuthMemoDeps(a, isAnonymous) ==
  <<a.session, a.user, a.userData, a.accessToken, isAnonymous, a.isLoading, a.userId>>

\* AuthProvider's useMemo: isAuthenticated is re-read from the provider only
\* when one of the deps changed.
AuthContextValue(prev, a, cp, sbv) ==
  IF AuthMemoDeps(a, AnonContextIsAnonymous) = AuthMemoDeps(prev, prev.isAnonymous)
  THEN prev
  ELSE [session |-> a.session, user |-> a.user, userData |-> a.userData,
        accessToken |-> a.accessToken, userId |-> a.userId,
        isLoading |-> a.isLoading,
        isAuthenticated |-> FbIsAuthenticated(cp, sbv),
        isAnonymous |-> AnonContextIsAnonymous]

\* Variant: a memo that depends on the anonymous id alone.
ComposerDeps_IdOnly(id, c) ==
  [anonId |-> id, isAuthenticated |-> FALSE, user |-> Null, userData |-> Null]

\* AnonWithAuthProvider's useMemo (AnonWithAuthProvider.tsx 22-35).
ComposerDeps(id, c) ==
  [anonId |-> id, isAuthenticated |-> c.isAuthenticated, user |-> c.user,
   userData |-> c.userData]

ComposerValue(prev, id, c) ==
  IF ComposerDeps(id, c) = prev.deps THEN prev
  ELSE [isAnonymous |-> (~Falsy(id) /\ ~c.isAuthenticated),
        deps |-> ComposerDeps(id, c)]

\* One render pass of the provider tree: context values are recomputed,
\* StreamSession is rendered only when auth is not loading, and the passive
\* effects of the pass are queued.
Render ==
  /\ dirty /\ ~effectsPending
  /\ LET c1 == AuthContextValue(ctx, auth, currentProvider, sb)
     IN /\ ctx' = c1
        /\ composer' = ComposerValue(composer, anonId, c1)
        /\ rend' = [ssMounted |-> ~c1.isLoading, authToken |-> authTokenToUse,
                    tokForReq |-> authTokenForRequests]
  /\ dirty' = FALSE
  /\ effectsPending' = TRUE
  /\ out' = Out("render", <<>>, <<>>, <<>>)
  /\ UNCHANGED <<svcVars, provVars, op, authVars, streamVars, anonVars, sinceSignOut>>

\* ------------------------------------------------ React: passive effects
\* StreamProvider's token effect (Stream.tsx 254-301), cur being the token it
\* holds. With isAuthenticated and no accessToken in the context it asks the
\* Supabase client for its session, and leaves the token alone without a
\* client. (No such context is ever rendered, so the await inside that branch
\* is not split off.)
StreamTokenEffect(c, cur) ==
  IF c.isAuthenticated /\ ~c.isAnonymous
  THEN IF ~Falsy(c.accessToken) THEN c.accessToken
       ELSE IF ~supabase THEN cur
       ELSE IF svcSession # Null THEN svcSession.access_token
       ELSE NullStr
  ELSE NullStr

\* ThreadProvider's token effect (Thread.tsx 56-95): the same, except that it
\* clears the token when there is no Supabase client.
ThreadTokenEffect(c) ==
  IF c.isAuthenticated /\ ~c.isAnonymous
  THEN IF ~Falsy(c.accessToken) THEN c.accessToken
       ELSE IF supabase /\ svcSession # Null THEN svcSession.access_token
       ELSE NullStr
  ELSE NullStr

StreamTokenDeps(c) ==
  [isAuthenticated |-> c.isAuthenticated, isAnonymous |-> c.isAnonymous,
   accessToken |-> c.accessToken, userId |-> c.userId]

ThreadTokenDeps(c) ==
  [isAuthenticated |-> c.isAuthenticated, isAnonymous |-> c.isAnonymous,
   accessToken |-> c.accessToken,
   userId |-> IF c.user = Null THEN Undef ELSE c.user.id]

\* StreamSession's first effect (97-157): the closure it installs.
FetchOverride(c, r) ==
  [userId |-> c.userId, authToken |-> r.authToken, isAnonymous |-> c.isAnonymous]

\* The passive effects of the last render, children first: StreamSession
\* (un)installs the fetch override and checks the graph status, then the
\* token effects of StreamProvider and ThreadProvider run.
FlushEffects ==
  /\ effectsPending
  /\ effectsPending' = FALSE
  /\ LET newMount == fetchOv = Null
         e1 == newMount \/ fetchOv.userId # ctx.userId
                        \/ fetchOv.authToken # rend.authToken
         e2 == newMount \/ fetchOv.authToken # rend.authToken
         ov == IF ~rend.ssMounted THEN Null
               ELSE IF e1 THEN FetchOverride(ctx, rend) ELSE fetchOv
         reqs == IF rend.ssMounted /\ e2
                 THEN <<WindowFetch(ov, CheckGraphStatusRequest(ctx.isAnonymous,
                                                               rend.authToken))>>
                 ELSE <<>>
         t1 == IF StreamTokenDeps(ctx) # spDeps THEN StreamTokenEffect(ctx, authTokenToUse)
               ELSE authTokenToUse
         t2 == IF ThreadTokenDeps(ctx) # tpDeps THEN ThreadTokenEffect(ctx)
               ELSE authTokenForRequests
     IN /\ fetchOv' = ov
        /\ authTokenToUse' = t1
        /\ authTokenForRequests' = t2
        /\ spDeps' = StreamTokenDeps(ctx)
        /\ tpDeps' = ThreadTokenDeps(ctx)
        /\ dirty' = (dirty \/ t1 # authTokenToUse \/ t2 # authTokenForRequests)
        /\ out' = Out("effects", <<>>, <<>>, reqs)
  /\ UNCHANGED <<svcVars, provVars, op, authVars, ctx, rend, composer, timer, hist,
                 thr, singleton, anonVars, sinceSignOut>>

\* ---------------------------------------------------- outbound requests
\* The streaming SDK inside StreamSession calls window.fetch: a thread
\* creation or a run on a thread.
SdkRequests ==
  { Request("/threads", "POST", "X-Api-Key" :> ApiKey, NoHeaders),
    Request("/threads/t/runs/stream", "POST", "X-Api-Key" :> ApiKey, NoHeaders) }

StreamRequest ==
  /\ rend.ssMounted
  /\ \E req \in SdkRequests :
       out' = Out("request", <<>>, <<>>, <<WindowFetch(fetchOv, req)>>)
  /\ UNCHANGED <<svcVars, provVars, op, authVars, renderVars, streamVars, anonVars,
                 sinceSignOut>>

\* The getThreads closure of the last render of ThreadProvider.
GetThreadsClosure(c, r) ==
  [isAuthenticated |-> c.isAuthenticated, isAnonymous |-> c.isAnonymous,
   user |-> c.user, tokForReq |-> r.tokForReq, accessToken |-> c.accessToken]

\* onThreadId (Stream.tsx 170-175): sleep().then(() => getThreads()...) keeps
\* the getThreads of the render that created the callback.
OnThreadId ==
  /\ rend.ssMounted /\ timer = Null
  /\ timer' = GetThreadsClosure(ctx, rend)
  /\ out' = Out("onThreadId", <<>>, <<>>, <<>>)
  /\ UNCHANGED <<svcVars, provVars, op, authVars, renderVars, authTokenToUse,
                 authTokenForRequests, fetchOv, spDeps, tpDeps, hist, thr,
                 singleton, anonVars, sinceSignOut>>

\* The sleep is over: the thread search goes out through window.fetch.
TimerFire ==
  /\ timer # Null
  /\ timer' = Null
  /\ out' = Out("request", <<>>, <<>>, <<WindowFetch(fetchOv, GetThreadsRequest(timer))>>)
  /\ UNCHANGED <<svcVars, provVars, op, authVars, renderVars, authTokenToUse,
                 authTokenForRequests, fetchOv, spDeps, tpDeps, hist, thr,
                 singleton, anonVars, sinceSignOut>>

\* --------------------------------------------- anonymous store operations
CreateAnonSession ==
  /\ mounted /\ anonCtr < MaxAnonIds
  /\ LET st == createAnonSession(AnonStore, lsFault)
     IN /\ StoreBecomes(st)
        /\ dirty' = (dirty \/ st.id # anonId)
        /\ out' = Out("createAnonSession", <<>>, st.toasts, <<>>)
  /\ UNCHANGED <<svcVars, provVars, op, authVars, ctx, effectsPending, rend, composer,
                 streamVars, loads, sinceSignOut>>

ClearAnonSession ==
  /\ mounted
  /\ LET st == clearAnonSession(AnonStore, lsFault)
     IN /\ StoreBecomes(st)
        /\ dirty' = (dirty \/ st.id # anonId)
        /\ out' = Out("clearAnonSession", <<>>, st.toasts, <<>>)
  /\ UNCHANGED <<svcVars, provVars, op, authVars, ctx, effectsPending, rend, composer,
                 streamVars, loads, sinceSignOut>>

\* ------------------------------------------------------ specifications
\* The provider layer: the identity service, the two adapters, the composite
\* and AuthProvider's calls into them.
ProviderNext ==
  \/ Mount
  \/ AnswerGetSession
  \/ ResumeInitialize
  \/ DeliverEvent
  \/ \E email \in Emails, password \in Passwords : SignInCall(email, password)
  \/ AnswerSignIn
  \/ ResumeSignIn
  \/ \E email \in Emails, password \in Passwords : SignUpCall(email, password)
  \/ AnswerSignUp
  \/ ResumeSignUp
  \/ SignOutCall
  \/ AnswerSignOut
  \/ ResumeSignOut
  \/ \E email \in Emails : ResetPasswordCall(email)
  \/ AnswerResetPassword
  \/ ResumeResetPassword
  \/ TokenRefreshed
  \/ SessionExpired

Next ==
  \/ ProviderNext
  \/ Subscribe
  \/ Unsubscribe
  \/ ReadGetters

Spec == Init /\ [][Next]_vars

\* User input reaches a handler of the rendered page: the calls made from the
\* UI start when no render and no effect is outstanding. Service answers,
\* change events, timers and requests interleave freely with rendering.
UiReady == ~dirty /\ ~effectsPending

UiCall ==
  /\ UiReady
  /\ \/ \E email \in Emails, password \in Passwords : SignInCall(email, password)
     \/ \E email \in Emails, password \in Passwords : SignUpCall(email, password)
     \/ SignOutCall
     \/ \E email \in Emails : ResetPasswordCall(email)

ServiceNext ==
  \/ Mount
  \/ AnswerGetSession
  \/ ResumeInitialize
  \/ DeliverEvent
  \/ AnswerSignIn
  \/ ResumeSignIn
  \/ AnswerSignUp
  \/ ResumeSignUp
  \/ AnswerSignOut
  \/ ResumeSignOut
  \/ AnswerResetPassword
  \/ ResumeResetPassword
  \/ TokenRefreshed
  \/ SessionExpired

\* The application: the provider layer under React rendering, effects and the
\* requests of StreamSession and ThreadProvider.
AppNext ==
  \/ UiCall
  \/ ServiceNext
  \/ Render
  \/ FlushEffects
  \/ StreamRequest
  \/ OnThreadId
  \/ TimerFire

\* The application runs over the composite (both builds) and over the
\* provider an unconfigured build gets.
InitApp == InitWith(FallbackEnvs \cup {UnsetEnv}, {"none"})

SpecApp == InitApp /\ [][AppNext]_vars

\* The anonymous store and the composer over the provider layer.
AnonStoreCall ==
  /\ UiReady
  /\ \/ CreateAnonSession
     \/ ClearAnonSession

AnonNext ==
  \/ UiCall
  \/ ServiceNext
  \/ Render
  \/ FlushEffects
  \/ AnonStoreCall

SpecAnon == Init /\ [][AnonNext]_vars

\* The page is loaded again: everything held in memory starts over, while
\* localStorage, the build and the identity service's side stay as they are.
\* The next Mount runs AnonProvider's mount effect over the same storage.
Reload ==
  /\ mounted /\ loads < MaxLoads
  /\ (Falsy(lsAnonId) /\ lsFault = "none") => anonCtr < MaxAnonIds
  /\ mounted' = FALSE
  /\ loads' = loads
  /\ anonId' = NullStr
  /\ sb' = NoSb
  /\ anonUserData' = Null
  /\ currentProvider' = "anon"
  /\ subscriptionCallbacks' = <<>>
  /\ sbListeners' = <<>>
  /\ op' = NoneOp
  /\ auth' = AuthState0
  /\ ctx' = [session |-> Null, user |-> Null, userData |-> Null,
             accessToken |-> NullStr, userId |-> NullStr, isLoading |-> TRUE,
             isAuthenticated |-> FALSE, isAnonymous |-> FALSE]
  /\ dirty' = FALSE
  /\ effectsPending' = FALSE
  /\ authTokenToUse' = NullStr
  /\ authTokenForRequests' = NullStr
  /\ rend' = [ssMounted |-> FALSE, authToken |-> NullStr, tokForReq |-> NullStr]
  /\ fetchOv' = Null
  /\ spDeps' = [isAuthenticated |-> FALSE, isAnonymous |-> FALSE,
                accessToken |-> NullStr, userId |-> NullStr]
  /\ tpDeps' = [isAuthenticated |-> FALSE, isAnonymous |-> FALSE,
                accessToken |-> NullStr, userId |-> NullStr]
  /\ timer' = Null
  /\ hist' = ThreadHistory0
  /\ thr' = Thread0
  /\ singleton' = NoInstance
  /\ composer' = [isAnonymous |-> FALSE,
                  deps |-> [anonId |-> NullStr, isAuthenticated |-> FALSE,
                            user |-> Null, userData |-> Null]]
  /\ sinceSignOut' = FALSE
  /\ out' = Out("reload", <<>>, <<>>, <<>>)
  /\ UNCHANGED <<svcVars, lsAnonId, anonCtr, lsFault>>

\* The anonymous store on its own: page loads over a localStorage that works,
\* or whose reads or writes throw, and clearAnonSession between them.
StorageFaults == {"none", "read", "write"}

StoreNext ==
  \/ Mount
  \/ Reload
  \/ ClearAnonSession
  \/ Render

InitStore == InitWith(FallbackEnvs \cup {UnsetEnv}, StorageFaults)

SpecStore == InitStore /\ [][StoreNext]_vars

\* ThreadHistory over a provider tree whose auth context changes.
InitHistory == InitWith({UnsetEnv}, {"none"}) /\ lsAnonId = NullStr

SpecHistory == InitHistory /\ [][HistoryNext]_vars

\* Effects run, timers fire, requests settle and auth operations finish.
SpecHistoryLive ==
  /\ SpecHistory
  /\ WF_vars(AuthOpEnd)
  /\ WF_vars(HistoryEffect)
  /\ WF_vars(HistoryTimerFire)
  /\ WF_vars(SearchSettles)

\* --------------------------------------- configuration and header functions
\* One application of a function to the build's settings or to arguments.
Applied(fn, args, result) ==
  /\ call' = [fn |-> fn, args |-> args, result |-> result]
  /\ UNCHANGED <<env, svcSession, events, tokenCtr, provVars, op, authVars,
                 renderVars, streamVars, anonVars, sinceSignOut, out>>

ResolveProvider == Applied("getAuthProvider", <<>>, getAuthProvider(env))

ResolveConfig == Applied("getAuthConfig", <<>>, getAuthConfig(env))

LoadSupabaseClient == Applied("supabase", <<>>, SupabaseClient(env))

CreateProvider == Applied("createAuthProvider", <<>>, createAuthProvider(env))

\* Some module calls getAuthProviderInstance().
GetProviderInstance ==
  /\ singleton' = getAuthProviderInstance(env, singleton)
  /\ call' = [fn |-> "getAuthProviderInstance", args |-> <<>>,
              result |-> singleton'.instance]
  /\ UNCHANGED <<env, svcSession, events, tokenCtr, provVars, op, authVars,
                 renderVars, authTokenToUse, authTokenForRequests, fetchOv, spDeps,
                 tpDeps, timer, hist, thr, anonVars, sinceSignOut, out>>

\* The arguments getLangGraphHeaders is applied to.
ApiKeys == {NullStr, Undef, "", ApiKey}
AuthTokens == {NullStr, Undef, "", " ", "   ", "\t", " \n ", "tok1", " tok1 "}

BuildHeaders ==
  \E apiKey \in ApiKeys, authToken \in AuthTokens :
    Applied("getLangGraphHeaders", <<apiKey, authToken>>,
            getLangGraphHeaders(apiKey, authToken))

\* ------------------------------------------------ Thread.handleSubmit
\* What one handleSubmit call leaves behind: the messages handed to
\* stream.submit, the component's pendingMessage and input, localStorage's
\* 'pendingMessage', and whether it opened the sign-in modal.
SubmitResult(submitted, pendingMessage, stored, input, opened) ==
  [submitted |-> submitted, pendingMessage |-> pendingMessage, stored |-> stored,
   input |-> input, isSignInModalOpen |-> opened]

\* Variant: a handleSubmit without the authentication check.
handleSubmit_NoGate(e, isAuthenticated, isLoading, pendingMessage, storedMessage, input) ==
  LET pending1 == IF ~Falsy(storedMessage) /\ Falsy(pendingMessage)
                  THEN storedMessage ELSE pendingMessage
      messageToSend == OrStr(pendingMessage, OrStr(storedMessage, input))
  IN IF Falsy(messageToSend) \/ IsBlank(messageToSend) \/ isLoading
     THEN SubmitResult(<<>>, pending1, storedMessage, input, FALSE)
     ELSE SubmitResult(<<messageToSend>>, NullStr, NullStr, "", FALSE)

\* Thread.handleSubmit (part_006 178-256) in a build with settings e.
handleSubmit(e, isAuthenticated, isLoading, pendingMessage, storedMessage, input) ==
  LET pending1 == IF ~Falsy(storedMessage) /\ Falsy(pendingMessage)
                  THEN storedMessage ELSE pendingMessage
      messageToSend == OrStr(pendingMessage, OrStr(storedMessage, input))
      currentAuthProvider == getAuthProvider(e)
      forceSkipSignIn == e.VITE_AUTH_PROVIDER = "anon"
  IN IF Falsy(messageToSend) \/ IsBlank(messageToSend) \/ isLoading
     THEN SubmitResult(<<>>, pending1, storedMessage, input, FALSE)
     ELSE IF ~isAuthenticated /\ currentAuthProvider # "anon" /\ ~forceSkipSignIn
     THEN SubmitResult(<<>>, messageToSend, messageToSend, input, TRUE)
     ELSE SubmitResult(<<messageToSend>>, NullStr, NullStr, "", FALSE)

\* The composer's text, the pending message kept in state and the one kept
\* in localStorage when the form is submitted.
Inputs == {"", "   ", "hello"}
PendingMessages == {NullStr, "draft"}
StoredMessages == {NullStr, "draft", "older draft"}

\* The form is submitted. isAuthenticated can be true only over a Supabase
\* client.
SubmitMessage ==
  \E isAuthenticated \in IF supabase THEN BOOLEAN ELSE {FALSE},
     isLoading \in BOOLEAN, pendingMessage \in PendingMessages,
     storedMessage \in StoredMessages, input \in Inputs :
    Applied("handleSubmit",
            <<isAuthenticated, isLoading, pendingMessage, storedMessage, input>>,
            handleSubmit(env, isAuthenticated, isLoading, pendingMessage,
                         storedMessage, input))

\* ------------------------- Thread: blocked submission and the sign-in modal
MaxSubmits == 2     \* times the user submits the composer form in one run
MaxSignIns == 1     \* sign-ins through the modal in one run

\* Everything but thr.
thrOthers ==
  <<svcVars, provVars, op, authVars, renderVars, authTokenToUse, authTokenForRequests,
    fetchOv, spDeps, tpDeps, timer, hist, singleton, anonVars, sinceSignOut, out>>

\* A Thread instance is mounted: its mount effect copies a saved
\* 'pendingMessage' into pendingMessage and input (part_006 98-105).
ThreadMounted(t) ==
  [t EXCEPT !.inst = Len(t.st) + 1,
            !.st = Append(t.st,
                          [input |-> IF ~Falsy(t.ls) THEN t.ls ELSE "",
                           pendingMessage |-> t.ls,
                           modalOpen |-> FALSE])]

\* The tree is rendered after a change of the auth context.
ThreadRendered(t) ==
  IF StreamSessionRendered(t.authLoading)
  THEN IF t.inst = 0 THEN ThreadMounted(t) ELSE t
  ELSE [t EXCEPT !.inst = 0]

\* What handleSubmit leaves behind when it ran as instance i's closure: its
\* setState calls reach the instance only while it is mounted; localStorage
\* and stream.submit are reached in any case.
AfterHandleSubmit(t, i, r) ==
  LET t1 == [t EXCEPT !.ls = r.stored, !.submitted = @ \o r.submitted]
  IN IF t.inst = i
     THEN [t1 EXCEPT !.st[i] = [input |-> r.input,
                                pendingMessage |-> r.pendingMessage,
                                modalOpen |-> @.modalOpen \/ r.isSignInModalOpen]]
     ELSE t1

\* initialize() is over: isLoading becomes false and Thread is rendered for
\* the first time (no stored session here, so the user is signed out).
ThreadPageReady ==
  /\ thr.last = "init"
  /\ thr' = [ThreadRendered([thr EXCEPT !.authLoading = FALSE]) EXCEPT !.last = "ready"]
  /\ UNCHANGED thrOthers

\* The user types a message (or leaves what the composer holds) and submits
\* the form.
ComposerSubmit ==
  /\ thr.inst # 0 /\ thr.submits < MaxSubmits
  /\ \E typed \in {"hello", "keep"} :
       LET i == thr.inst
           input == IF typed = "keep" THEN thr.st[i].input ELSE typed
           r == handleSubmit(env, thr.isAuthenticated, FALSE,
                             thr.st[i].pendingMessage, thr.ls, input)
       IN thr' = [AfterHandleSubmit(thr, i, r) EXCEPT !.submits = @ + 1,
                                                     !.last = "submit"]
  /\ UNCHANGED thrOthers

\* The user submits the modal's sign-in form: SignInModal.handleSubmit calls
\* signIn, which sets isLoading; the identity service accepts or refuses.
\* The suspended handler keeps the onSignInSuccess it was rendered with, and
\* that one the handleSubmit of the same render.
ModalSignIn ==
  /\ thr.inst # 0 /\ thr.st[thr.inst].modalOpen /\ thr.signIn = Null
  /\ thr.signIns < MaxSignIns
  /\ \E ok \in (IF supabase THEN BOOLEAN ELSE {FALSE}) :
       thr' = [ThreadRendered([thr EXCEPT !.authLoading = TRUE]) EXCEPT
                 !.signIn = [inst |-> thr.inst, ok |-> ok,
                             isAuthenticated |-> thr.isAuthenticated,
                             pendingMessage |-> thr.st[thr.inst].pendingMessage,
                             input |-> thr.st[thr.inst].input],
                 !.eventPending = ok,
                 !.signIns = @ + 1,
                 !.last = "signIn.call"]
  /\ UNCHANGED thrOthers

\* The SIGNED_IN change event reaches the auth context.
ThreadSignedInEvent ==
  /\ thr.eventPending
  /\ thr' = [thr EXCEPT !.eventPending = FALSE, !.isAuthenticated = TRUE,
                        !.last = "event"]
  /\ UNCHANGED thrOthers

\* signIn returns to SignInModal.handleSubmit (it resolves also when the
\* sign-in failed): isLoading is cleared and onSignInSuccess runs (part_006
\* 306-336): it closes the modal and, with a stored message, sets the first
\* timeout.
ModalSignInReturns ==
  /\ thr.signIn # Null
  /\ LET c == thr.signIn
         t1 == ThreadRendered([thr EXCEPT !.authLoading = FALSE, !.signIn = Null])
         t2 == IF t1.inst = c.inst
               THEN [t1 EXCEPT !.st[c.inst].modalOpen = FALSE] ELSE t1
     IN thr' = [t2 EXCEPT
                  !.timeouts = IF ~Falsy(thr.ls)
                               THEN Append(@, [stage |-> 1500, storedMessage |-> thr.ls,
                                               closure |-> c])
                               ELSE @,
                  !.last = "signIn.return"]
  /\ UNCHANGED thrOthers

\* A timeout of onSignInSuccess fires. The first sets the input and starts
\* the second; the second removes 'pendingMessage' from localStorage and
\* calls the handleSubmit it closed over.
ThreadTimeout ==
  /\ thr.timeouts # <<>>
  /\ LET to == Head(thr.timeouts)
         c == to.closure
     IN IF to.stage = 1500
        THEN thr' = [thr EXCEPT
                       !.st = IF thr.inst = c.inst
                              THEN [@ EXCEPT ![c.inst].input = to.storedMessage]
                              ELSE @,
                       !.timeouts = <<[to EXCEPT !.stage = 100]>> \o Tail(@),
                       !.last = "timeout"]
        ELSE LET r == handleSubmit(env, c.isAuthenticated, FALSE, c.pendingMessage,
                                   NullStr, c.input)
             IN thr' = [AfterHandleSubmit([thr EXCEPT !.ls = NullStr], c.inst, r) EXCEPT
                          !.timeouts = Tail(@),
                          !.last = IF c.ok THEN "resubmit.signedIn" ELSE "resubmit.refused"]
  /\ UNCHANGED thrOthers

ThreadNext ==
  \/ ThreadPageReady
  \/ ComposerSubmit
  \/ ModalSignIn
  \/ ThreadSignedInEvent
  \/ ModalSignInReturns
  \/ ThreadTimeout

InitThread == InitWith(FallbackEnvs, {"none"}) /\ lsAnonId = NullStr

SpecThread == InitThread /\ [][ThreadNext]_vars

\* ------------------------------------------------ signInWithGoogle
\* Text is a sequence of characters here, so that encoding and parsing are
\* computed. The characters encodeURIComponent escapes, with their codes.
Reserved == {"&", "=", ":", "/", "#", "%", "+", " ", "?"}

PctOf(c) ==
  CASE c = "&" -> <<"2", "6">>
    [] c = "=" -> <<"3", "D">>
    [] c = ":" -> <<"3", "A">>
    [] c = "/" -> <<"2", "F">>
    [] c = "#" -> <<"2", "3">>
    [] c = "%" -> <<"2", "5">>
    [] c = "+" -> <<"2", "B">>
    [] c = " " -> <<"2", "0">>
    [] c = "?" -> <<"3", "F">>

RECURSIVE encodeURIComponent(_)
encodeURIComponent(str) ==
  IF str = <<>> THEN <<>>
  ELSE (IF Head(str) \in Reserved THEN <<"%">> \o PctOf(Head(str)) ELSE <<Head(str)>>)
         \o encodeURIComponent(Tail(str))

\* Decoding of a query-string name or value (URLSearchParams): '+' is a
\* space, %XX is the character with that code.
RECURSIVE PctDecode(_)
PctDecode(str) ==
  IF str = <<>> THEN <<>>
  ELSE IF Head(str) = "+" THEN <<" ">> \o PctDecode(Tail(str))
  ELSE IF /\ Head(str) = "%"
          /\ Len(str) >= 3
          /\ \E c \in Reserved : PctOf(c) = <<str[2], str[3]>>
       THEN <<CHOOSE c \in Reserved : PctOf(c) = <<str[2], str[3]>> >>
              \o PctDecode(SubSeq(str, 4, Len(str)))
  ELSE <<Head(str)>> \o PctDecode(Tail(str))

\* Position of the first c in str, 0 when there is none.
IndexOf(str, c) ==
  IF \E i \in 1..Len(str) : str[i] = c
  THEN CHOOSE i \in 1..Len(str) : str[i] = c /\ \A j \in 1..(i - 1) : str[j] # c
  ELSE 0

Before(str, c) == IF IndexOf(str, c) = 0 THEN str ELSE SubSeq(str, 1, IndexOf(str, c) - 1)

After(str, c) == IF IndexOf(str, c) = 0 THEN <<>> ELSE SubSeq(str, IndexOf(str, c) + 1, Len(str))

\* new URL(href).search without its '?': what lies between the first '?' and
\* the fragment.
QueryOf(href) == After(Before(href, "#"), "?")

\* A query parameter as searchParams.get reads it: absent (null), or present
\* with a decoded value.
Param(present, value) == [present |-> present, value |-> value]

RECURSIVE searchParamsGet(_, _)
searchParamsGet(query, key) ==
  IF query = <<>> THEN Param(FALSE, <<>>)
  ELSE LET pair == Before(query, "&")
       IN IF pair # <<>> /\ PctDecode(Before(pair, "=")) = <<key>>
          THEN Param(TRUE, PctDecode(After(pair, "=")))
          ELSE searchParamsGet(After(query, "&"), key)

\* if (x) on a value searchParams.get returned: null and "" are falsy.
Truthy(param) == param.present /\ param.value # <<>>

\* window.location.origin.
Origin == <<"https://app">>

\* The redirect URL signInWithGoogle builds (types.ts 203-214) from the
\* current URL's apiUrl and assistantId parameters and its hash.
RedirectUrl(url) ==
  LET apiUrl == url.apiUrl
      assistantId == url.assistantId
  IN Origin \o
     (IF Truthy(apiUrl) \/ Truthy(assistantId)
      THEN <<"/", "?">>
           \o (IF Truthy(apiUrl)
               THEN <<"apiUrl", "=">> \o encodeURIComponent(apiUrl.value) ELSE <<>>)
           \o (IF Truthy(apiUrl) /\ Truthy(assistantId) THEN <<"&">> ELSE <<>>)
           \o (IF Truthy(assistantId)
               THEN <<"assistantId", "=">> \o encodeURIComponent(assistantId.value)
               ELSE <<>>)
           \o url.hash
      ELSE <<>>)

\* signInWithGoogle (types.ts 194-231) in a build with settings e: the OAuth
\* request that reaches the identity service, and the toasts shown. Only the
\* fallback provider has signInWithOAuth, and its adapter needs the client.
signInWithGoogle(e, url) ==
  LET redirectUrl == RedirectUrl(url)
  IN IF createAuthProvider(e) # "FallbackAuthProvider"
     THEN [oauth |-> <<>>,
           toasts |-> <<"error:OAuth sign-in is not supported by the current auth provider">>]
     ELSE IF SupabaseClient(e) = Null
     THEN [oauth |-> <<>>,
           toasts |-> <<"error:Supabase authentication is not properly configured">>]
     ELSE [oauth |-> <<[provider |-> "google", redirectTo |-> redirectUrl]>>,
           toasts |-> <<>>]

\* Values a query parameter of the current URL may carry, and its fragments.
UrlValues ==
  { <<>>, <<"a">>, <<"a", "&", "b", "=", "c">>,
    <<"h", ":", "/", "/", "x", "#", "y">>, <<"1", "0", "0", "%", "+", " ", "?">> }

UrlParams == {Param(FALSE, <<>>)} \cup {Param(TRUE, v) : v \in UrlValues}

UrlHashes == { <<>>, <<"#", "t">> }

CurrentUrls == [apiUrl : UrlParams, assistantId : UrlParams, hash : UrlHashes]

\* The Google button is pressed on some current URL.
SignInWithGoogle ==
  \E url \in CurrentUrls :
    Applied("signInWithGoogle", <<url>>, signInWithGoogle(env, url))

\* The identifiers getThreadSearchMetadata is applied to: graph names and
\* assistant UUIDs.
AssistantIds == {AssistantId, "my-graph"} \cup Uuids

BuildSearchMetadata ==
  \E assistantId \in AssistantIds :
    Applied("getThreadSearchMetadata", <<assistantId>>,
            getThreadSearchMetadata(assistantId))

ConfigNext ==
  \/ ResolveProvider
  \/ ResolveConfig
  \/ LoadSupabaseClient
  \/ CreateProvider
  \/ GetProviderInstance
  \/ BuildHeaders
  \/ BuildSearchMetadata
  \/ SubmitMessage
  \/ SignInWithGoogle

InitConfig == InitWith(Envs, {"none"})

SpecConfig == InitConfig /\ [][ConfigNext]_vars


\* ======================================================================
\* Properties
\* ======================================================================

\* The sign-in's SIGNED_IN event is still queued at the identity service.
SignInEventPending ==
  /\ events # <<>>
  /\ events[Len(events)] # Null
  /\ events[Len(events)] = svcSession

\* isAnonymous as derived from the anonymous id and the composite provider
\* (AnonWithAuthProvider: hasAnonId && !isAuthenticated).
DerivedIsAnonymous ==
  ~Falsy(anonId) /\ ~FbIsAuthenticated(currentProvider, sb)

\* C1: once FallbackAuthProvider.signIn has resolved without error and the
\* SIGNED_IN change event is still undelivered, isAuthenticated() is true,
\* getAccessToken() is non-null and the derived isAnonymous is false.
C1_SignedInBeforeEvent ==
  (supabase /\ out.step = "signIn.ok" /\ SignInEventPending)
    => /\ FbIsAuthenticated(currentProvider, sb)
       /\ FbGetAccessToken(currentProvider, sb) # NullStr
       /\ ~DerivedIsAnonymous

\* C2: after a sign-out that completed while the composite was external-active
\* (no new sign-in or session event since, React has already rendered the
\* signed-out context and is running or has run its effects), no request sent through the StreamSession fetch
\* override or by thread search carries an Authorization header.
C2_NoBearerAfterSignOut ==
  (sinceSignOut /\ ~ctx.isAuthenticated /\ ctx.accessToken = NullStr
     /\ ~effectsPending)
    => \A i \in 1..Len(out.reqs) : ~HasBearer(out.reqs[i])

\* C3: while an anonymous id exists and the user is not authenticated (both
\* for the provider and for the rendered context), every outbound request is
\* built without the external token, whatever stale token the state holds.
C3_AnonRequestsCarryNoToken ==
  (~Falsy(anonId) /\ ~FbIsAuthenticated(currentProvider, sb) /\ ~ctx.isAuthenticated)
    => \A i \in 1..Len(out.reqs) : ~HasBearer(out.reqs[i])

\* C4: when FallbackAuthProvider.signOut() has returned, from any prior state
\* and whether or not the external sign-out succeeded, isAuthenticated() is
\* false and getSession/getUser/getUserData/getAccessToken return null.
C4_SignedOutReadsNull ==
  out.step = "signOut.return"
    => /\ ~FbIsAuthenticated(currentProvider, sb)
       /\ FbGetSession(currentProvider, sb) = Null
       /\ FbGetUser(currentProvider, sb) = Null
       /\ FbGetUserData(currentProvider, sb) = Null
       /\ FbGetAccessToken(currentProvider, sb) = NullStr

\* signOut returned after the external sign-out failed: the adapter still
\* caches the user and the token.
C4_Witness ==
  /\ out.step = "signOut.return"
  /\ out.toasts = <<"error:Failed to sign out">>
  /\ sb.user # Null /\ sb.accessToken # NullStr

\* C5 as stated: after a successful signUp the composite is external-active
\* and every registered subscriber has been notified.
C5_SignUpActivates ==
  out.step = "signUp.ok"
    => /\ currentProvider = "supabase"
       /\ \A i \in 1..Len(subscriptionCallbacks) :
            \E j \in 1..Len(out.notified) :
              out.notified[j].cb = subscriptionCallbacks[i]

\* C5 amended: the step in which a successful signUp returns leaves
\* currentProvider as it was and notifies no subscriber.
C5_SignUpLeavesState ==
  [][(ResumeSignUp /\ op.ok)
       => (currentProvider' = currentProvider /\ out'.notified = <<>>)]_vars

\* A successful signUp returned with subscribers registered and the composite
\* still anonymous-only.
C5_Witness ==
  /\ out.step = "signUp.ok"
  /\ subscriptionCallbacks # <<>>
  /\ currentProvider = "anon"

\* C6 as stated: the composite starts anonymous-only; after it has processed a
\* change notification carrying session s, and after initialize has looked up
\* the persisted session s, it is external-active exactly when s is non-null.
C6_StateFollowsSession ==
  /\ out.step = "init" => currentProvider = "anon"
  /\ out.step = "event.session" => currentProvider = "supabase"
  /\ out.step = "event.null" => currentProvider = "anon"
  /\ out.step = "initialize.session" => currentProvider = "supabase"
  /\ out.step \in {"initialize.nosession", "initialize.noclient"}
       => currentProvider = "anon"

\* C6 amended: as above for change notifications; after initialize the
\* composite is external-active exactly when the adapter holds a session,
\* which is the restored one when the lookup found one and otherwise whatever
\* earlier change notifications left there.
C6_StateFollowsAdapterSession ==
  /\ out.step = "init" => currentProvider = "anon"
  /\ out.step = "event.session" => currentProvider = "supabase"
  /\ out.step = "event.null" => currentProvider = "anon"
  /\ out.step = "initialize.session" => currentProvider = "supabase"
  /\ out.step \in {"initialize.session", "initialize.nosession",
                   "initialize.error", "initialize.noclient"}
       => (currentProvider = "supabase") = (SbGetSession(sb) # Null)

\* A sign-out / expiry notification was processed by the composite's
\* listener, every subscriber was told, and the composite is anonymous-only.
C6_Witness ==
  /\ out.step = "event.null"
  /\ Len(out.notified) >= Len(subscriptionCallbacks)
  /\ subscriptionCallbacks # <<>>
  /\ currentProvider = "anon"
  /\ tokenCtr > 0

\* C7: isAuthenticated() is true only if the composite is external-active and
\* the adapter's user is non-null; in anonymous-only it is false.
C7_AuthenticatedOnlyExternal ==
  /\ FbIsAuthenticated(currentProvider, sb)
       => (currentProvider = "supabase" /\ SbGetUser(sb) # Null)
  /\ currentProvider = "anon" => ~FbIsAuthenticated(currentProvider, sb)

\* Anonymous-only while the adapter still caches a user (external sign-out
\* failed): isAuthenticated() is false.
C7_Witness ==
  /\ currentProvider = "anon"
  /\ SbGetUser(sb) # Null
  /\ ~FbIsAuthenticated(currentProvider, sb)

\* C8: in anonymous-only getUserData(), getAccessToken() and getUserId() all
\* return null (never the placeholder); in external-active they return the
\* adapter's values.
C8_AnonymousOnlyReadsNull ==
  /\ currentProvider = "anon"
       => /\ FbGetUserData(currentProvider, sb) = Null
          /\ FbGetAccessToken(currentProvider, sb) = NullStr
          /\ FbGetUserId(currentProvider, sb) = NullStr
  /\ currentProvider = "supabase"
       => /\ FbGetUserData(currentProvider, sb) = SbGetUserData(sb)
          /\ FbGetAccessToken(currentProvider, sb) = SbGetAccessToken(sb)
          /\ FbGetUserId(currentProvider, sb) = SbGetUserId(sb)

\* Anonymous-only with the placeholder profile initialised and the adapter
\* still caching a signed-in user.
C8_Witness ==
  /\ currentProvider = "anon"
  /\ anonUserData # Null
  /\ SbGetUserData(sb) # Null
  /\ SbGetAccessToken(sb) # NullStr

\* C9: whenever the tree is rendered up to date, the composer's isAnonymous is
\* true exactly when an anonymous id exists and the context's isAuthenticated
\* is false.
C9_ComposerIsAnonymous ==
  ~dirty => (composer.isAnonymous = (~Falsy(anonId) /\ ~ctx.isAuthenticated))

\* The composer went back to not-anonymous after the user was authenticated
\* while an anonymous id exists.
C9_Witness ==
  /\ ~dirty
  /\ ~Falsy(anonId)
  /\ ctx.isAuthenticated
  /\ ~composer.isAnonymous

\* C10: the adapter's session, user, userData and accessToken are either all
\* null or all derived from one and the same session.
C10_AdapterFieldsConsistent ==
  \/ sb = NoSb
  \/ /\ sb.session # Null
     /\ sb.user = sb.session.user
     /\ sb.accessToken = sb.session.access_token
     /\ sb.userData = extractUserDataFromUser(sb.user)

\* The adapter replaced one session by a later one (token refresh or a new
\* sign-in).
C10_Witness ==
  /\ sb.session # Null
  /\ sb.accessToken = TokenNames[2]

\* The build lacks the service URL or the public key.
MissingExternalParameters ==
  Falsy(env.VITE_SUPABASE_URL) \/ Falsy(env.VITE_SUPABASE_ANON_KEY)

\* C11: whenever the service URL or the public key is missing, the resolver
\* yields the anonymous (or disabled) provider kind, also when the provider
\* kind is configured as the external one.
C11_MissingParametersDowngrade ==
  (call.fn = "getAuthProvider" /\ MissingExternalParameters)
    => call.result \in {"anon", "none"}

\* C12: when VITE_AUTH_PROVIDER is not specified, the effective provider is
\* 'none' and the null provider is the one created.
C12_DefaultsToNone ==
  Falsy(env.VITE_AUTH_PROVIDER)
    => /\ call.fn = "getAuthProvider" => call.result = "none"
       /\ call.fn = "createAuthProvider" => call.result = "NullAuthProvider"

\* C13: getLangGraphHeaders(apiKey, authToken) carries Authorization exactly
\* when authToken is neither null, undefined, empty nor whitespace-only, and
\* then as 'Bearer ' plus the token; it carries X-Api-Key exactly when apiKey
\* is truthy; nothing else enters the result.
C13_HeadersFromArguments ==
  call.fn = "getLangGraphHeaders"
    => LET apiKey == call.args[1]
           authToken == call.args[2]
           headers == call.result
       IN /\ ("Authorization" \in DOMAIN headers)
               = (authToken \notin {NullStr, Undef, "", " ", "   ", "\t", " \n "})
          /\ "Authorization" \in DOMAIN headers
               => headers["Authorization"] = <<"Bearer", authToken>>
          /\ ("X-Api-Key" \in DOMAIN headers) = (apiKey \notin {NullStr, Undef, ""})
          /\ "X-Api-Key" \in DOMAIN headers => headers["X-Api-Key"] = apiKey
          /\ DOMAIN headers \subseteq {"Authorization", "X-Api-Key"}

\* A whitespace-only token with a real API key: X-Api-Key alone is emitted.
C13_Witness ==
  /\ call.fn = "getLangGraphHeaders"
  /\ call.args[2] = "   "
  /\ DOMAIN call.result = {"X-Api-Key"}

\* C14: in a build without a Supabase client (no external parameters), whatever
\* the user and the service have done, no outbound request carries an
\* Authorization header and no request metadata names an owner: a thread
\* search filters by graph_id or assistant_id only.
C14_UnconfiguredRequestsAreBare ==
  ~supabase
    => \A i \in 1..Len(out.reqs) :
         /\ ~HasBearer(out.reqs[i])
         /\ "owner" \notin DOMAIN out.reqs[i].metadata
         /\ out.reqs[i].url = "/threads/search"
              => DOMAIN out.reqs[i].metadata \in {{"graph_id"}, {"assistant_id"}}

\* A thread search went out under the anonymous provider after the user had
\* signed out there (the placeholder profile is cleared).
C14_Witness ==
  /\ authProviderInstance = "AnonymousAuthProvider"
  /\ Len(out.reqs) = 1
  /\ out.reqs[1].url = "/threads/search"
  /\ DOMAIN out.reqs[1].metadata = {"graph_id"}
  /\ anonUserData = Null

\* The external service answered the adapter's call with an error.
ServiceErrorReturned ==
  \/ out.step \in {"signIn.err", "signUp.err", "resetPassword.err"}
  \/ out.step = "signOut.return" /\ out.toasts = <<"error:Failed to sign out">>

\* C15: whenever the external service answers signIn, signUp, signOut or
\* resetPassword with an error, the adapter shows an error notification and
\* re-throws the error to its caller.
C15_AdapterNotifiesAndRethrows ==
  ServiceErrorReturned
    => /\ Len(out.toasts) = 1
       /\ out.adapterThrew

\* C16: when a sign-in, sign-up or password reset started from the UI fails,
\* the promise the auth context returned to the UI caller rejects.
C16_FailureRejectsToCaller ==
  out.step \in {"signIn.err", "signUp.err", "resetPassword.err"}
    => out.rejected

\* C17 as stated: initialize() never rejects, and when the session lookup
\* fails the adapter ends with all cached fields null and the composite is
\* anonymous-only.
C17_FailedLookupMeansNoSession ==
  out.step = "initialize.error"
    => /\ ~out.adapterThrew /\ ~out.rejected
       /\ sb = NoSb
       /\ currentProvider = "anon"

\* C17 amended: initialize() never rejects; when the session lookup fails the
\* adapter shows an error notification and keeps its cached fields (null unless
\* an earlier change notification stored a session), and the composite is
\* external-active exactly when the adapter holds a session.
C17_FailedLookupKeepsFields ==
  [][(ResumeInitialize /\ ~op.ok)
       => /\ ~out'.adapterThrew /\ ~out'.rejected
          /\ out'.toasts = <<"error:Failed to initialize authentication">>
          /\ sb' = sb
          /\ currentProvider' = IF sb.session # Null THEN "supabase" ELSE "anon"]_vars

\* The lookup failed on a fresh adapter: error shown, nothing cached, the
\* composite anonymous-only, AuthProvider no longer loading.
C17_Witness ==
  /\ out.step = "initialize.error"
  /\ sb = NoSb
  /\ currentProvider = "anon"
  /\ ~auth.isLoading

\* The step that ran AnonProvider's mount effect (initializeAnonSession).
RestoreOrCreateSteps == {"initialize.call", "initialize.noclient", "initialize.plain"}

\* The identifiers uuidv4() has handed out so far.
IssuedAnonIds == {AnonIdNames[i] : i \in 1..anonCtr}

\* C18: over a localStorage that works, restore-or-create yields the persisted
\* identifier whenever one is there and leaves it persisted, so two runs with
\* no clear between them yield the same identifier; and after every run the
\* identifier in memory is the persisted one.
C18_RestoreIsIdempotent ==
  /\ [](mounted /\ lsFault = "none" => anonId = lsAnonId)
  /\ [][(Mount /\ lsFault = "none" /\ ~Falsy(lsAnonId))
          => /\ anonId' = lsAnonId
             /\ lsAnonId' = lsAnonId]_vars

\* Two page loads, one identifier ever generated: both runs yielded it.
C18_Witness ==
  /\ mounted /\ loads = 2 /\ lsFault = "none"
  /\ out.step \in RestoreOrCreateSteps
  /\ anonCtr = 1
  /\ anonId = AnonIdNames[1] /\ lsAnonId = AnonIdNames[1]

\* C19: over a localStorage that works, clearAnonSession leaves the storage
\* key absent and the identifier in memory null, and a restore-or-create that
\* finds the key absent generates an identifier never handed out before (so
\* different from every cleared one), persists it and puts it in memory.
C19_ClearThenFresh ==
  /\ [](IF Falsy(lsAnonId) THEN TRUE ELSE lsAnonId \in IssuedAnonIds)
  /\ [][(lsFault = "none")
          => /\ ClearAnonSession => (Falsy(lsAnonId') /\ Falsy(anonId'))
             /\ (Mount /\ Falsy(lsAnonId))
                  => /\ ~Falsy(anonId')
                     /\ anonId' \notin IssuedAnonIds
                     /\ lsAnonId' = anonId']_vars

\* The second page load found the key cleared and generated the second
\* identifier: in this specification only a restore-or-create generates one.
C19_Witness ==
  /\ mounted /\ loads = 2 /\ lsFault = "none"
  /\ out.step \in RestoreOrCreateSteps
  /\ anonCtr = 2
  /\ anonId = AnonIdNames[2] /\ lsAnonId = AnonIdNames[2]

\* C20: when localStorage reads or writes throw during restore-or-create, the
\* store still ends with a non-null identifier in memory.
C20_StorageFailureFallsBack ==
  (out.step \in RestoreOrCreateSteps /\ lsFault # "none") => ~Falsy(anonId)

\* C21: signIn, signUp, signOut, resetPassword (the call, the service's answer
\* and the resumption) and every delivered change notification leave the
\* anonymous identifier unchanged, in memory and in localStorage; signOut
\* neither clears it nor generates another.
C21_AuthLeavesAnonymousId ==
  [][(UiCall \/ AnswerSignIn \/ ResumeSignIn \/ AnswerSignUp \/ ResumeSignUp
        \/ AnswerSignOut \/ ResumeSignOut \/ AnswerResetPassword
        \/ ResumeResetPassword \/ DeliverEvent \/ TokenRefreshed \/ SessionExpired)
       => /\ anonId' = anonId
          /\ lsAnonId' = lsAnonId
          /\ anonCtr' = anonCtr]_vars

\* A completed sign-out with the identifier still in memory and in storage.
C21_Witness ==
  /\ out.step = "signOut.return"
  /\ out.toasts = <<"success:Signed out successfully">>
  /\ ~Falsy(anonId) /\ lsAnonId = anonId

\* C22: calling a subscriber's unsubscribe handle removes its callback and its
\* adapter listener; every callback a notification invokes is registered at
\* that moment, so an unsubscribed callback is not invoked by any later
\* notification; calling the handle again changes nothing.
C22_UnsubscribedNeverNotified ==
  /\ [](\A i \in 1..Len(out.notified) :
          Registered(subscriptionCallbacks, out.notified[i].cb))
  /\ [](Unsubscribed(Unsubscribed(subscriptionCallbacks, "obs"), "obs")
          = Unsubscribed(subscriptionCallbacks, "obs"))
  /\ [][Unsubscribe
          => /\ ~Registered(subscriptionCallbacks', "obs")
             /\ ~Registered(sbListeners', "obs")
             /\ (~Registered(subscriptionCallbacks, "obs")
                   => /\ subscriptionCallbacks' = subscriptionCallbacks
                      /\ sbListeners' = sbListeners)]_vars

\* The handle was called while a change event is still queued: the
\* notification to come reaches AuthProvider's callback only.
C22_Witness ==
  /\ out.step = "unsubscribe"
  /\ events # <<>>
  /\ Registered(subscriptionCallbacks, "auth")
  /\ ~Registered(subscriptionCallbacks, "obs")

\* C23: whenever the composite invokes subscriber callbacks, it has applied
\* its own transition first: the session each callback receives is what
\* getSession() returns in the state the step ends in, and the cells
\* AuthProvider's callback fills from the getters hold that state's values.
C23_NotifiedAfterTransition ==
  /\ \A i \in 1..Len(out.notified) :
        out.notified[i].session = FbGetSession(currentProvider, sb)
  /\ (out.notified # <<>> /\ HasAuthCallback(subscriptionCallbacks))
       => /\ auth.session = FbGetSession(currentProvider, sb)
          /\ auth.user = FbGetUser(currentProvider, sb)
          /\ auth.userData = FbGetUserData(currentProvider, sb)
          /\ auth.userId = FbGetUserId(currentProvider, sb)

\* A change event carrying a session was forwarded: the callbacks received
\* the new session.
C23_Witness ==
  /\ out.step = "event.session"
  /\ out.notified # <<>>
  /\ out.notified[1].session # Null
  /\ currentProvider = "supabase"
  /\ auth.session = out.notified[1].session

\* C24: within one notification the registered callbacks are invoked in the
\* order of their registration: the callbacks invoked are the registered
\* list (kept in registration order by push), front to back, once per
\* notifyCallbacks() run.
C24_RegistrationOrder ==
  LET cbs == subscriptionCallbacks
      n == Len(subscriptionCallbacks)
  IN out.notified # <<>>
       => /\ n > 0
          /\ Len(out.notified) % n = 0
          /\ \A i \in 1..Len(out.notified) :
                out.notified[i].cb = cbs[((i - 1) % n) + 1]

\* A notification that reached two subscribers, the first-registered first.
C24_Witness ==
  /\ Len(out.notified) >= 2
  /\ subscriptionCallbacks = <<"auth", "obs">>
  /\ out.notified[1].cb = "auth"
  /\ out.notified[2].cb = "obs"

\* C25: reading getSession, getUser, getUserData, getAccessToken, getUserId
\* and isAuthenticated in any reachable state leaves the adapter's fields, the
\* anonymous adapter's profile and the composite's currentProvider as they are.
C25_GettersChangeNothing ==
  /\ [](SbAfterGetAccessToken(sb) = sb)
  /\ [][ReadGetters
          => /\ sb' = sb
             /\ anonUserData' = anonUserData
             /\ currentProvider' = currentProvider]_vars

\* The getters were read while the external adapter holds a session.
C25_Witness ==
  /\ out.step = "getters"
  /\ currentProvider = "supabase"
  /\ sb.session # Null
  /\ sb.accessToken = sb.session.access_token

\* A thread-creation request among the requests of the last step.
IsThreadCreation(req) == req.url = "/threads" /\ req.method = "POST"

HasOwner(req) == "owner" \in DOMAIN req.metadata

\* The page has rendered the current state and run that render's effects.
Settled == ~dirty /\ ~effectsPending

IsThreadSearch(req) == req.url = "/threads/search" /\ req.method = "POST"

\* C27: a thread-search request issued from a settled page carries
\* metadata.owner equal to the external user id when the user is
\* authenticated, and no owner at all when the user is not.
C27_ThreadSearchOwner ==
  \A i \in 1..Len(out.reqs) :
    (Settled /\ IsThreadSearch(out.reqs[i]))
      => IF ctx.isAuthenticated
         THEN /\ HasOwner(out.reqs[i])
              /\ out.reqs[i].metadata["owner"] = FbGetUserId(currentProvider, sb)
         ELSE ~HasOwner(out.reqs[i])

\* C28: the metadata getThreadSearchMetadata builds holds exactly one key:
\* assistant_id when the configured identifier is a valid UUID, graph_id
\* otherwise, with the identifier as its value.
C28_ExactlyOneIdentifierKey ==
  call.fn = "getThreadSearchMetadata"
    => LET assistantId == call.args[1]
           metadata == call.result
       IN /\ DOMAIN metadata
               = IF assistantId \in Uuids THEN {"assistant_id"} ELSE {"graph_id"}
          /\ \A k \in DOMAIN metadata : metadata[k] = assistantId

\* Applied to a UUID: assistant_id alone.
C28_Witness ==
  /\ call.fn = "getThreadSearchMetadata"
  /\ call.args[1] \in Uuids
  /\ DOMAIN call.result = {"assistant_id"}

\* The message a submission is about: the pending one, else the stored one,
\* else the composer's text.
MessageToSend(pendingMessage, storedMessage, input) ==
  IF ~Falsy(pendingMessage) THEN pendingMessage
  ELSE IF ~Falsy(storedMessage) THEN storedMessage
  ELSE input

\* C29: handleSubmit hands a message to the stream only if the user is
\* authenticated or the resolved provider kind is 'anon'; otherwise, for a
\* non-blank message while no run is loading, nothing is submitted, the sign-in
\* modal is opened, and the message is kept as pendingMessage in state and in
\* localStorage.
C29_SubmissionGated ==
  call.fn = "handleSubmit"
    => LET isAuthenticated == call.args[1]
           isLoading == call.args[2]
           message == MessageToSend(call.args[3], call.args[4], call.args[5])
           r == call.result
       IN /\ r.submitted # <<>>
               => /\ isAuthenticated \/ getAuthProvider(env) = "anon"
                  /\ r.submitted = <<message>>
          /\ (~isAuthenticated /\ getAuthProvider(env) # "anon"
                /\ message \notin {"", "   "} /\ ~isLoading)
               => /\ r.submitted = <<>>
                  /\ r.isSignInModalOpen
                  /\ r.pendingMessage = message
                  /\ r.stored = message

\* A signed-out user of a 'supabase' build typed a message: blocked and kept.
C29_Witness ==
  /\ call.fn = "handleSubmit"
  /\ getAuthProvider(env) = "supabase"
  /\ ~call.args[1]
  /\ call.result.submitted = <<>>
  /\ call.result.isSignInModalOpen
  /\ call.result.pendingMessage = "hello"
  /\ call.result.stored = "hello"

\* C30: when signInWithGoogle starts an OAuth sign-in, the redirect URL it
\* hands over carries every apiUrl / assistantId parameter present in the
\* current URL, with the same value.
C30_RedirectKeepsSelection ==
  (call.fn = "signInWithGoogle" /\ call.result.oauth # <<>>)
    => LET url == call.args[1]
           query == QueryOf(call.result.oauth[1].redirectTo)
       IN /\ url.apiUrl.present => searchParamsGet(query, "apiUrl") = url.apiUrl
          /\ url.assistantId.present
               => searchParamsGet(query, "assistantId") = url.assistantId


\* C31: the UserData the composite exposes for an external user always has a
\* name: the profile's full_name, or one synthesized from the email or a
\* placeholder when profile metadata is missing; never undefined or empty.
C31_NameSynthesized ==
  FbGetUserData(currentProvider, sb) # Null
    => FbGetUserData(currentProvider, sb).name \notin {Undef, NullStr, ""}

\* How often the callback was invoked by the last step.
Invocations(callback) ==
  Cardinality({i \in 1..Len(out.notified) : out.notified[i].cb = callback})

\* C32: one external change event invokes each callback registered on the
\* composite exactly once, however many subscribers there are.
C32_OncePerEvent ==
  out.step \in {"event.session", "event.null"}
    => \A i \in 1..Len(subscriptionCallbacks) :
         Invocations(subscriptionCallbacks[i]) = 1

\* C33: whenever the composite's currentProvider is 'supabase', the adapter
\* holds a session; also after a signIn that returned without a client.
C33_ExternalActiveHasSession ==
  currentProvider = "supabase" => SbGetSession(sb) # Null

\* C34: when signOut has completed, isAuthenticated() is false, and while no
\* new sign-in has been started no step (in particular no external change
\* event) makes it true again.
C34_SignedOutUntilSignIn ==
  /\ [](out.step = "signOut.return" => ~FbIsAuthenticated(currentProvider, sb))
  /\ [][(sinceSignOut /\ ~FbIsAuthenticated(currentProvider, sb))
          => ~FbIsAuthenticated(currentProvider', sb')]_vars

\* C35: once rendering has settled, the isAnonymous flag of the auth context
\* (useAuth) equals the composer's: true iff an anonymous id exists and
\* isAuthenticated is false.
C35_ContextFlagIsComposers ==
  Settled
    => /\ ctx.isAnonymous = composer.isAnonymous
       /\ ctx.isAnonymous = (~Falsy(anonId) /\ ~ctx.isAuthenticated)

\* C36: whenever auth loading has finished, with the API URL and the
\* assistant id available, threadsLoading eventually becomes false.
C36_ThreadsLoadingEnds ==
  (hist.params \in {"url", "env"} /\ ~hist.authLoading) ~> ~hist.threadsLoading

\* An auth operation ended with the user unchanged, threads had been loaded
\* for that user before, and the list is shown again.
C36_Witness ==
  /\ hist.ops >= 1 /\ ~hist.authLoading /\ ~hist.threadsLoading
  /\ hist.inst >= 2
  /\ hist.refs[1].loaded /\ hist.refs[1].userId = hist.user
  /\ hist.refs[hist.inst].loaded /\ hist.refs[hist.inst].userId = hist.user

\* A newer load attempt than f's has been started: by the same ThreadHistory
\* instance, or by one mounted later.
Superseded(f) ==
  \/ f.attempt # hist.refs[f.inst].attempt
  \/ \E j \in (f.inst + 1)..Len(hist.refs) : hist.refs[j].attempt > 0

\* C37: when the thread search of a superseded load attempt settles, it
\* neither sets the thread list nor marks threads as loaded for its user.
C37_OnlyLatestAttemptSets ==
  [][\A f \in hist.flights :
       (f \notin hist'.flights /\ Superseded(f))
         => /\ hist'.threads = hist.threads
            /\ hist'.refs[f.inst].loaded = hist.refs[f.inst].loaded
            /\ hist'.refs[f.inst].userId = hist.refs[f.inst].userId]_vars

\* C38: once the resubmission that follows a successful sign-in has run (and
\* the auth context shows the user signed in), the message that was blocked
\* has been handed to the stream exactly once and 'pendingMessage' is gone
\* from localStorage.
C38_PendingMessageSent ==
  (thr.last = "resubmit.signedIn" /\ thr.isAuthenticated)
    => /\ Len(thr.submitted) = 1
       /\ thr.ls = NullStr

=============================================================================
